---------------------------- MODULE Spec2Model ----------------------------
(***************************************************************************)
(* The Cachix API client of terraform-provider-cachix                      *)
(* (internal/provider/client.go): the retry loop of doRequest, the four    *)
(* resource operations built on it, and the pure helpers shouldRetry,      *)
(* handleErrorResponse and IsNotFoundError.                                *)
(*                                                                         *)
(* One operation runs at a time on one client.  Its goroutine is followed  *)
(* through the positions of doRequest's loop:                              *)
(*   "send"     an attempt is about to call httpClient.Do   (l.126-142)    *)
(*   "flight"   httpClient.Do / io.ReadAll are running      (l.142-153)    *)
(*   "wait"     the select of the backoff wait              (l.113-117)    *)
(*   "returned" doRequest has returned to the operation     (l.164, 167)   *)
(*   "done"     the operation has returned to its caller                   *)
(* The server, the network and the caller's context are the environment.   *)
(***************************************************************************)
EXTENDS Naturals, Integers, Sequences, FiniteSets, TLC

VARIABLES
    op,        \* the running operation, "none" when the client is idle
    stage,     \* which doRequest call of the operation is running
    pc,        \* position of the goroutine (see above)
    attempt,   \* doRequest's loop variable `attempt`
    lastErr,   \* doRequest's local `lastErr`
    nreq,      \* calls of httpClient.Do made by the running doRequest
    log,       \* outcome of each finished attempt of the running doRequest
    posts,     \* POST requests of the operation that were put on the wire
    ctxDone,   \* the caller's context is cancelled
    cancelAt,  \* where the goroutine was when the context was cancelled
    dr,        \* what the last finished doRequest returned
    result,    \* what the operation returned to its caller
    call,      \* the arguments of the running operation
    user,      \* CreateCache's local `user`, the result of its GetUser
    trace,     \* the requests sent by the operation, in order (a retry of
               \* the request sent last is not listed again)
    okSeen,    \* the requests of the operation answered with 200 or 201
    bodyReader,\* doRequest's local `bodyReader`
    wire,      \* the request of the running attempt as the server sees it
    waits,     \* the backoff waits doRequest has slept through, in seconds
    resp,      \* the response read by the running attempt
    remote,    \* the caches the remote service holds
    first,     \* what the previous call of the operation returned
    config,    \* the provider configuration and environment given to Configure
    provider,  \* the response of the provider's Configure
    pure,      \* the last call of a pure helper: its input and its output
    client,    \* the fields of the CachixClient the operations run on
    external,  \* an actor other than this client has deleted the cache
    par,       \* the doRequest calls of goroutines sharing the client
    resource,  \* a CacheResource method: what it was given and what it did
    sent,      \* calls of httpClient.Do made by the operation in all the
               \* doRequest calls it has made
    adapter    \* the running method of a resource or data source, from its
               \* call to its return

vars == <<op, stage, pc, attempt, lastErr, nreq, log, posts, ctxDone,
          cancelAt, dr, result, call, user, trace, okSeen, bodyReader, wire,
          waits, resp, remote, first, config, provider, pure, client,
          external, par, resource, sent, adapter>>

\* what one attempt of doRequest reads and sends
io == <<bodyReader, wire, waits, resp>>

clientVars == <<op, stage, pc, attempt, lastErr, nreq, log, posts, ctxDone,
                cancelAt, dr, result, call, user, trace, okSeen, io>>

\* the client's fields, and the parts modelled for single properties
others == <<client, external, par, resource, sent, adapter>>

\* what is outside the client: the remote service, the provider, the helpers
outside == <<remote, first, config, provider, pure, others>>

-----------------------------------------------------------------------------
(* Constants of the program.                                               *)

\* const DefaultRetryMax = 3; NewCachixClient sets retryMax to it.
retryMax == 3

\* Bound: how many further fmt.Errorf("...: %w", err) layers a caller may
\* put around an error before asking IsNotFoundError about it.
MaxWrapDepth == 2

\* The status codes the modelled server answers with.
Statuses == {200, 201, 204, 401, 403, 404, 409, 429, 500, 503}

\* The status codes the retry policy is exercised on.
StatusCodes == 100..599

-----------------------------------------------------------------------------
(* Response bodies.  A body is what json.Unmarshal makes of it:             *)
(*   valid    it is a JSON object, so that its fields can be decoded; any   *)
(*            other text makes json.Unmarshal into a struct fail            *)
(*   error, message   the string values of these two fields, "" when the    *)
(*            field is absent or is not a string                            *)
(*   badtype  "error" or "message" holds a value that is not a string:      *)
(*            json.Unmarshal into a struct with these two string fields     *)
(*            decodes the other fields and then returns a type error        *)
(*   id, name the "id" field read by User and the "name" field read by      *)
(*            Cache, 0 and "" when absent                                   *)

NoBody ==
    [valid |-> FALSE, error |-> "", message |-> "", badtype |-> FALSE,
     id |-> 0, name |-> ""]

\* a JSON object with the fields of a Cache and of a User, and no error text
BodyJSON ==
    [valid |-> TRUE, error |-> "", message |-> "", badtype |-> FALSE,
     id |-> 12345, name |-> "test-cache"]

\* {"error": "E", "message": "M"}
BodyErrJSON ==
    [valid |-> TRUE, error |-> "E", message |-> "M", badtype |-> FALSE,
     id |-> 0, name |-> ""]

\* text that is not JSON
BodyGarbage ==
    [valid |-> FALSE, error |-> "", message |-> "", badtype |-> FALSE,
     id |-> 0, name |-> ""]

\* The bodies the modelled server answers with.
Bodies == {BodyJSON, BodyErrJSON, BodyGarbage}

-----------------------------------------------------------------------------
(* Errors.  A Go error is modelled by its wrap chain, outermost layer      *)
(* first: the sequence errors.Unwrap walks.  nil is the empty chain.       *)

Nil == << >>

\* fmt.Errorf("<msg>: %w", e)
Wrap(msg, e) == <<[k |-> "wrap", msg |-> msg, status |-> 0, body |-> NoBody]>> \o e

\* an error that wraps nothing and is no *APIError
Leaf(msg) == <<[k |-> "leaf", msg |-> msg, status |-> 0, body |-> NoBody]>>

\* &APIError{StatusCode: status, Message: message, Body: body}
APIError(status, message, body) ==
    <<[k |-> "api", msg |-> message, status |-> status, body |-> body]>>

\* ctx.Err() of a cancelled context: context.Canceled
CtxErr == Leaf("context canceled")


-----------------------------------------------------------------------------
(* Pure helpers of the client.                                             *)

\* Plausible slip: every status from 400 up is taken for transient.
shouldRetry_from400(statusCode) == statusCode >= 400

\* Plausible slip: rate limiting (429) is forgotten.
shouldRetry_only5xx(statusCode) == statusCode >= 500

\* func (c *CachixClient) shouldRetry(statusCode int) bool
shouldRetry(statusCode) == statusCode >= 500 \/ statusCode = 429

\* Plausible slip: `attempt <= c.retryMax + 1`, one iteration too many.
LoopCond_offByOne(a) == a <= retryMax + 1

\* Plausible slip: `attempt < c.retryMax`, retryMax tries in all.
LoopCond_short(a) == a < retryMax

\* the loop condition of doRequest: `attempt <= c.retryMax`
LoopCond(a) == a <= retryMax

\* Plausible slip: lastErr is set only while it is still nil, so the first
\* failure is kept instead of the latest.
RecordErr_keepFirst(old, new) == IF old = Nil THEN new ELSE old

\* the assignments `lastErr = ...` of doRequest: the new failure replaces
\* whatever was recorded before
RecordErr(old, new) == new

\* the message json.Unmarshal(body, &errResp) yields in handleErrorResponse:
\* "error" is preferred to "message"; when json.Unmarshal returns an error
\* (`err == nil` fails) nothing of the body is used
ParsedMessage(body) ==
    IF ~body.valid \/ body.badtype THEN ""
    ELSE IF body.error # "" THEN body.error
    ELSE IF body.message # "" THEN body.message
    ELSE ""

\* the switch of handleErrorResponse: the canned text of 401, 403 and 404
CannedMessage(statusCode) ==
    CASE statusCode = 401 -> "authentication failed: invalid or expired token"
      [] statusCode = 403 -> "access denied: insufficient permissions"
      [] statusCode = 404 -> "resource not found"
      [] OTHER -> ""

\* func (c *CachixClient) handleErrorResponse(statusCode int, body []byte) error
handleErrorResponse(statusCode, body) ==
    APIError(statusCode,
             IF ParsedMessage(body) # "" THEN ParsedMessage(body)
             ELSE CannedMessage(statusCode),
             body)

\* the wait times, in seconds
DefaultRetryWaitMin == 1

DefaultRetryWaitMax == 30

\* math.Pow(2, n) for the n >= 0 that calculateBackoff is called with
RECURSIVE Pow2(_)
Pow2(n) == IF n <= 0 THEN 1 ELSE 2 * Pow2(n - 1)

\* Plausible slip: the formula of the comment, "min * 2^attempt".
calculateBackoff_fromComment(a) ==
    LET wait == DefaultRetryWaitMin * Pow2(a)
    IN  IF wait > DefaultRetryWaitMax THEN DefaultRetryWaitMax ELSE wait

\* func (c *CachixClient) calculateBackoff(attempt int) time.Duration
\* for attempt >= 1, as doRequest calls it (`if attempt > 0`)
calculateBackoff(a) ==
    LET wait == DefaultRetryWaitMin * Pow2(a - 1)
    IN  IF wait > DefaultRetryWaitMax THEN DefaultRetryWaitMax ELSE wait

\* errors.As(err, &apiErr): the first *APIError of the wrap chain, if any
RECURSIVE ErrorsAs(_)
ErrorsAs(err) ==
    IF err = Nil THEN Nil
    ELSE IF Head(err).k = "api" THEN <<Head(err)>>
    ELSE ErrorsAs(Tail(err))

\* Plausible slip: a type assertion err.(*APIError) instead of errors.As,
\* which sees only the outermost error.
IsNotFoundError_noUnwrap(err) ==
    err # Nil /\ Head(err).k = "api" /\ Head(err).status = 404

\* func IsNotFoundError(err error) bool
IsNotFoundError(err) ==
    IF ErrorsAs(err) # Nil THEN Head(ErrorsAs(err)).status = 404 ELSE FALSE

-----------------------------------------------------------------------------
(* The state of an idle client and the values returned.                    *)

Ops == {"GetCache", "GetUser", "DeleteCache", "CreateCache"}

\* the first doRequest call of each operation: CreateCache starts with
\* GetUser (GET /user)
FirstStage(o) ==
    CASE o = "GetCache" -> "cache"
      [] o = "GetUser" -> "user"
      [] o = "DeleteCache" -> "delete"
      [] o = "CreateCache" -> "user"

NoCancel == [pc |-> "none", attempt |-> 0, nreq |-> 0]

NoReturn == [status |-> 0, body |-> NoBody, err |-> Nil, set |-> FALSE]

\* return resp, respBody, nil
Response(statusCode, body) ==
    [status |-> statusCode, body |-> body, err |-> Nil, set |-> TRUE]

\* return nil, nil, err
Failure(err) == [status |-> 0, body |-> NoBody, err |-> err, set |-> TRUE]

\* no decoded value: a nil *Cache or *User
NoData == [nil |-> TRUE, id |-> 0, name |-> ""]

NoResult == [val |-> "nil", data |-> NoData, err |-> Nil, set |-> FALSE]

\* an operation returns: val says what kind of value it returns with err
\* ("nil" for none), data is the value
Result(val, err) == [val |-> val, data |-> NoData, err |-> err, set |-> TRUE]

\* return &cache, nil / return &user, nil
Value(val, data) == [val |-> val, data |-> data, err |-> Nil, set |-> TRUE]

\* json.Unmarshal(body, &user): the User of a body that decodes
DecodeUser(body) == [nil |-> FALSE, id |-> body.id, name |-> ""]

\* json.Unmarshal(body, &cache): the Cache of a body that decodes
DecodeCache(body) == [nil |-> FALSE, id |-> 0, name |-> body.name]

\* the arguments of an operation: (name, isPublic) of CreateCache, name of
\* GetCache and DeleteCache, none of GetUser
NoArgs == [name |-> "", isPublic |-> FALSE]

Args(o) ==
    CASE o = "CreateCache" -> {[name |-> "new-cache", isPublic |-> TRUE],
                              [name |-> "private-cache", isPublic |-> FALSE]}
      [] o = "GetUser" -> {NoArgs}
      [] OTHER -> {[name |-> "test-cache", isPublic |-> FALSE]}

\* Plausible slip: the account of the user is not put into the POST body,
\* which then carries the zero value of AccountID.
Request_zeroAccount(st, a, u) ==
    CASE st = "user" ->
           [method |-> "GET", path |-> "/user", name |-> "", body |-> FALSE,
            isPublic |-> FALSE, generateSigningKey |-> FALSE, accountID |-> 0]
      [] st = "post" ->
           [method |-> "POST", path |-> "/cache/{name}", name |-> a.name,
            body |-> TRUE, isPublic |-> a.isPublic,
            generateSigningKey |-> TRUE, accountID |-> 0]
      [] st = "cache" ->
           [method |-> "GET", path |-> "/cache/{name}", name |-> a.name,
            body |-> FALSE, isPublic |-> FALSE, generateSigningKey |-> FALSE,
            accountID |-> 0]
      [] st = "delete" ->
           [method |-> "DELETE", path |-> "/cache/{name}", name |-> a.name,
            body |-> FALSE, isPublic |-> FALSE, generateSigningKey |-> FALSE,
            accountID |-> 0]

\* the request doRequest is called with in each stage: method, path and the
\* body that json.Marshal makes of CreateCacheRequest (POST only)
Request(st, a, u) ==
    CASE st = "user" ->
           [method |-> "GET", path |-> "/user", name |-> "", body |-> FALSE,
            isPublic |-> FALSE, generateSigningKey |-> FALSE, accountID |-> 0]
      [] st = "post" ->
           [method |-> "POST", path |-> "/cache/{name}", name |-> a.name,
            body |-> TRUE, isPublic |-> a.isPublic,
            generateSigningKey |-> TRUE, accountID |-> u.id]
      [] st = "cache" ->
           [method |-> "GET", path |-> "/cache/{name}", name |-> a.name,
            body |-> FALSE, isPublic |-> FALSE, generateSigningKey |-> FALSE,
            accountID |-> 0]
      [] st = "delete" ->
           [method |-> "DELETE", path |-> "/cache/{name}", name |-> a.name,
            body |-> FALSE, isPublic |-> FALSE, generateSigningKey |-> FALSE,
            accountID |-> 0]

\* the trace after one more request was put on the wire
Sent(tr, r) == IF tr # << >> /\ tr[Len(tr)] = r THEN tr ELSE Append(tr, r)

\* what Configure reads: the auth_token attribute (explicit says whether it
\* is null, unknown or holds the value token), the CACHIX_AUTH_TOKEN
\* environment variable ("" when unset: os.Getenv), the api_host attribute
\* (host, likewise "null", "unknown" or the value) and the provider's version
NoConfig ==
    [explicit |-> "null", token |-> "", env |-> "", host |-> "null",
     version |-> "test"]

\* a nil *CachixClient
NoClient ==
    [set |-> FALSE, baseURL |-> "", authToken |-> "", version |-> "",
     retryMax |-> 0]

\* func NewCachixClient(baseURL, authToken, version string) *CachixClient
\* (the version stands for the userAgent made of it)
NewCachixClient(baseURL, authToken, version) ==
    [set |-> TRUE, baseURL |-> baseURL, authToken |-> authToken,
     version |-> version, retryMax |-> retryMax]

\* the provider before Configure ran: no diagnostics, no client constructed
\* (client), nothing published in the ConfigureResponse, and a resource
\* whose Configure has not run (rconfigured) and that holds no client
NoProvider ==
    [configured |-> FALSE, errors |-> {}, client |-> NoClient,
     DataSourceData |-> NoClient, ResourceData |-> NoClient,
     rconfigured |-> FALSE, rclient |-> NoClient]

\* the client the tests construct: NewCachixClient(server.URL, "test-token",
\* "test")
TheClient == NewCachixClient("http://127.0.0.1", "test-token", "test")

\* bytes.NewBuffer(jsonBody) when the request has a body, else the nil
\* io.Reader; unread says that nothing was read from the buffer yet
NewReader(hasBody) == [set |-> hasBody, unread |-> hasBody]

\* no request on the wire
NoWire ==
    [sent |-> FALSE, attempt |-> 0, token |-> "", contentType |-> "",
     accept |-> "", version |-> "", body |-> FALSE, complete |-> FALSE,
     isPublic |-> FALSE, generateSigningKey |-> FALSE, accountID |-> 0]

\* Plausible slip: the buffer of the previous attempt is used again.
ResetReader_keep(reader) == reader

\* "Reset body reader for retry": `if body != nil` a new buffer over the
\* JSON of the same body
ResetReader(reader) == NewReader(reader.set)

\* Plausible slip: the wait is computed for the attempt after this one.
WaitFor_nextAttempt(a) == calculateBackoff(a + 1)

\* `wait := c.calculateBackoff(attempt)` before a retry
WaitFor(a) == calculateBackoff(a)

\* Plausible slip: the retried response is run through handleErrorResponse.
RetryableErr_classified(statusCode, body) ==
    handleErrorResponse(statusCode, body)

\* `lastErr = &APIError{StatusCode: resp.StatusCode, Body: string(respBody)}`
RetryableErr(statusCode, body) == APIError(statusCode, "", body)

\* func (e *APIError) Error() string: the status with the message, or with
\* the raw body when the message is empty
ErrorText(e) ==
    [status |-> e.status, message |-> e.msg,
     body |-> IF e.msg # "" THEN NoBody ELSE e.body]

\* Plausible slip: the headers are set on the first attempt only.
OnWire_headersOnFirst(c, a, reader, r) ==
    [sent |-> TRUE, attempt |-> a,
     token |-> IF a = 0 THEN c.authToken ELSE "",
     contentType |-> IF a = 0 THEN "application/json" ELSE "",
     accept |-> IF a = 0 THEN "application/json" ELSE "",
     version |-> IF a = 0 THEN c.version ELSE "", body |-> reader.set,
     complete |-> reader.set /\ reader.unread,
     isPublic |-> reader.unread /\ r.isPublic,
     generateSigningKey |-> reader.unread /\ r.generateSigningKey,
     accountID |-> IF reader.unread THEN r.accountID ELSE 0]

\* The request of one attempt: the four headers doRequest sets from the
\* client's fields (Authorization: Bearer <token>, Content-Type, Accept,
\* User-Agent: terraform-provider-cachix/<version>) and the body that
\* http.Client.Do reads from bodyReader: all of the JSON when nothing was
\* read from the buffer before, nothing of it otherwise.
OnWire(c, a, reader, r) ==
    [sent |-> TRUE, attempt |-> a, token |-> c.authToken,
     contentType |-> "application/json", accept |-> "application/json",
     version |-> c.version, body |-> reader.set,
     complete |-> reader.set /\ reader.unread,
     isPublic |-> reader.unread /\ r.isPublic,
     generateSigningKey |-> reader.unread /\ r.generateSigningKey,
     accountID |-> IF reader.unread THEN r.accountID ELSE 0]

\* no response read yet
NoResp == [set |-> FALSE, status |-> 0, body |-> NoBody]

\* nothing known of an earlier DeleteCache: it has not returned (set), its
\* error, and whether the response of the DELETE that removed the cache
\* was lost on its way to the client (lost)
NoFirst == [set |-> FALSE, err |-> Nil, lost |-> FALSE]

\* the outcome of one attempt, as the log keeps it: a response with its
\* status code, or a failure of the network ("transport", "readfail") or of
\* the context ("canceled") for which no status code was obtained
Status(statusCode) == [kind |-> "status", status |-> statusCode]

NetFail(kind) == [kind |-> kind, status |-> 0]

\* The Cache type and its wire JSON.  A string is the sequence of its
\* characters; of the characters, `"` and `<` are among those that
\* json.Marshal writes as an escape sequence.  The strings are valid UTF-8,
\* as every string is that json.Unmarshal has produced.
Chars == {"a", "\"", "<"}

\* the longest name of a Cache
MaxNameLen == 2

\* the strings of at most n characters
StringsUpTo(n) == UNION {[1..k -> Chars] : k \in 0..n}

\* a []string: nil, or a slice with its items (empty and not nil when it
\* has none)
NilSlice == [nil |-> TRUE, items |-> << >>]

Slice(items) == [nil |-> FALSE, items |-> items]

\* the values of type Cache
Caches ==
    [Name : StringsUpTo(MaxNameLen),
     URI : {<< >>, <<"a">>},
     IsPublic : BOOLEAN,
     PublicSigningKeys : {NilSlice, Slice(<< >>), Slice(<<<<"a">>>>),
                          Slice(<<<<"a", "\"">>, << >>>>)},
     CreatedAt : {<< >>, <<"a">>}]

\* encoding/json writes a character of a string: `"` after a backslash,
\* `<` as the escape sequence u003c after a backslash, a letter as it is
EscapeChar(c) ==
    CASE c = "\"" -> [esc |-> TRUE, text |-> "\""]
      [] c = "<" -> [esc |-> TRUE, text |-> "u003c"]
      [] OTHER -> [esc |-> FALSE, text |-> c]

\* encoding/json reads a character of a string literal
UnescapeChar(t) ==
    IF ~t.esc THEN t.text
    ELSE IF t.text = "u003c" THEN "<"
    ELSE t.text

\* a Go string as a JSON string literal, and back
EncodeString(str) == [i \in 1..Len(str) |-> EscapeChar(str[i])]

DecodeString(lit) == [i \in 1..Len(lit) |-> UnescapeChar(lit[i])]

\* a member of the JSON object that is absent
Absent == [present |-> FALSE, null |-> FALSE, literal |-> << >>,
           items |-> << >>, bool |-> FALSE]

JSONString(str) == [Absent EXCEPT !.present = TRUE,
                                  !.literal = EncodeString(str)]

JSONBool(b) == [Absent EXCEPT !.present = TRUE, !.bool = b]

JSONNull == [Absent EXCEPT !.present = TRUE, !.null = TRUE]

JSONArray(strs) ==
    [Absent EXCEPT !.present = TRUE,
                   !.items = [i \in 1..Len(strs) |-> EncodeString(strs[i])]]

\* Plausible slip: publicSigningKeys is tagged omitempty as createdAt is,
\* so that a slice without items is left out.
MarshalCache_omitemptyKeys(c) ==
    [name |-> JSONString(c.Name),
     uri |-> JSONString(c.URI),
     isPublic |-> JSONBool(c.IsPublic),
     publicSigningKeys |-> IF c.PublicSigningKeys.items = << >> THEN Absent
                           ELSE JSONArray(c.PublicSigningKeys.items),
     createdAt |-> IF c.CreatedAt = << >> THEN Absent
                   ELSE JSONString(c.CreatedAt)]

\* json.Marshal(cache) by the tags of the Cache struct: a nil slice is
\* written as null, and createdAt is left out when it is "" (omitempty)
MarshalCache(c) ==
    [name |-> JSONString(c.Name),
     uri |-> JSONString(c.URI),
     isPublic |-> JSONBool(c.IsPublic),
     publicSigningKeys |-> IF c.PublicSigningKeys.nil THEN JSONNull
                           ELSE JSONArray(c.PublicSigningKeys.items),
     createdAt |-> IF c.CreatedAt = << >> THEN Absent
                   ELSE JSONString(c.CreatedAt)]

\* `var cache Cache`: the zero value
ZeroCache ==
    [Name |-> << >>, URI |-> << >>, IsPublic |-> FALSE,
     PublicSigningKeys |-> NilSlice, CreatedAt |-> << >>]

\* json.Unmarshal(body, &cache) into the zero value: a member that is
\* absent or null leaves its field as it is
UnmarshalCache(j) ==
    [Name |-> IF j.name.present /\ ~j.name.null
              THEN DecodeString(j.name.literal) ELSE ZeroCache.Name,
     URI |-> IF j.uri.present /\ ~j.uri.null
             THEN DecodeString(j.uri.literal) ELSE ZeroCache.URI,
     IsPublic |-> IF j.isPublic.present /\ ~j.isPublic.null
                  THEN j.isPublic.bool ELSE ZeroCache.IsPublic,
     PublicSigningKeys |->
         IF j.publicSigningKeys.present /\ ~j.publicSigningKeys.null
         THEN Slice([i \in 1..Len(j.publicSigningKeys.items) |->
                       DecodeString(j.publicSigningKeys.items[i])])
         ELSE ZeroCache.PublicSigningKeys,
     CreatedAt |-> IF j.createdAt.present /\ ~j.createdAt.null
                   THEN DecodeString(j.createdAt.literal)
                   ELSE ZeroCache.CreatedAt]

\* the wire JSON of no call
NoJSON ==
    [name |-> Absent, uri |-> Absent, isPublic |-> Absent,
     publicSigningKeys |-> Absent, createdAt |-> Absent]

NoCall ==
    [fn |-> "none", status |-> 0, body |-> NoBody, attempt |-> 0,
     out |-> FALSE, err |-> Nil, wait |-> 0, cache |-> ZeroCache,
     json |-> NoJSON, back |-> ZeroCache, arg |-> Nil, handled |-> FALSE,
     notFound |-> FALSE, diags |-> << >>]

\* a types.List of strings: null, or the list of its items
NullList == [null |-> TRUE, items |-> << >>]

\* the state of a cachix_cache resource (CacheResourceModel); present is
\* false when there is none, as after RemoveResource
NoState ==
    [present |-> FALSE, id |-> << >>, name |-> << >>, is_public |-> FALSE,
     uri |-> << >>, public_signing_keys |-> NullList]

\* what GetCache returned to a resource method: (*Cache, error); none when
\* it was not called
NoGet == [called |-> FALSE, nil |-> TRUE, cache |-> ZeroCache, err |-> Nil]

\* no resource method has run.  Of a method that has run: whether the
\* resource held a client (configured), the state it was given (prior), what
\* GetCache returned (get), the state in its response (state) and the
\* summaries of the error diagnostics it reported (diags)
NoResource ==
    [called |-> FALSE, configured |-> FALSE, prior |-> NoState,
     get |-> NoGet, state |-> NoState, diags |-> << >>]

InitClient ==
    /\ op = "none"
    /\ stage = "none"
    /\ pc = "idle"
    /\ attempt = 0
    /\ lastErr = Nil
    /\ nreq = 0
    /\ log = << >>
    /\ posts = 0
    /\ ctxDone = FALSE
    /\ cancelAt = NoCancel
    /\ dr = NoReturn
    /\ result = NoResult
    /\ call = NoArgs
    /\ user = NoData
    /\ trace = << >>
    /\ okSeen = {}
    /\ bodyReader = NewReader(FALSE)
    /\ wire = NoWire
    /\ waits = << >>
    /\ resp = NoResp

\* the client of the tests, nobody else at the cache, no goroutines
\* besides the caller's, no resource method running
\* no method of a resource or data source is running: which method runs
\* (method), whether its receiver holds a client (configured), where it is
\* (pc: "idle", "calling" the client, "returned", or "panicked"), the
\* summaries of the error diagnostics it has added (diags), and what it
\* did to the state in its response: stored a cache of this name (written,
\* name) or removed the resource (removed)
NoAdapter ==
    [method |-> "none", configured |-> FALSE, pc |-> "idle", diags |-> << >>,
     written |-> FALSE, name |-> "", removed |-> FALSE]

InitOthers ==
    /\ client = TheClient
    /\ external = FALSE
    /\ par = << >>
    /\ resource = NoResource
    /\ sent = 0
    /\ adapter = NoAdapter

InitOutside ==
    /\ remote = {}
    /\ first = NoFirst
    /\ config = NoConfig
    /\ provider = NoProvider
    /\ pure = NoCall
    /\ InitOthers

Init == InitClient /\ InitOutside

-----------------------------------------------------------------------------
(* doRequest.                                                              *)

\* Plausible slip: the attempt counter is kept between the doRequest calls
\* of one operation, so that the stages share one budget.
EnterDoRequest_sharedBudget(st) ==
    /\ stage' = st
    /\ pc' = "send"
    /\ attempt' = attempt
    /\ lastErr' = Nil
    /\ nreq' = 0
    /\ log' = << >>
    /\ dr' = NoReturn
    /\ bodyReader' = NewReader(st = "post")
    /\ wire' = NoWire
    /\ waits' = << >>
    /\ resp' = NoResp

\* the top of doRequest up to the first iteration of its loop:
\* `var lastErr error; for attempt := 0; ...`
EnterDoRequest(st) ==
    /\ stage' = st
    /\ pc' = "send"
    /\ attempt' = 0
    /\ lastErr' = Nil
    /\ nreq' = 0
    /\ log' = << >>
    /\ dr' = NoReturn
    /\ bodyReader' = NewReader(st = "post")
    /\ wire' = NoWire
    /\ waits' = << >>
    /\ resp' = NoResp

\* The client is called: operation o with the arguments a and a live
\* context.
Called(o, a) ==
    /\ pc = "idle"
    /\ op' = o
    /\ call' = a
    /\ EnterDoRequest(FirstStage(o))
    /\ UNCHANGED <<posts, ctxDone, cancelAt, result, user, trace, okSeen>>

\* An operation is called with a live context.
Start(o, a) == Called(o, a) /\ UNCHANGED outside

\* An attempt failed in a way doRequest retries: the failure is recorded in
\* lastErr and `continue` runs attempt++ and the loop condition; when the
\* condition fails the loop is left and "max retries exceeded" is returned.
FailAttempt(outcome, err) ==
    /\ log' = Append(log, outcome)
    /\ lastErr' = RecordErr(lastErr, err)
    /\ attempt' = attempt + 1
    /\ IF LoopCond(attempt + 1)
       THEN pc' = "wait" /\ dr' = dr
       ELSE /\ pc' = "returned"
            /\ dr' = Failure(Wrap("max retries exceeded", RecordErr(lastErr, err)))

\* http.NewRequestWithContext and the call of c.httpClient.Do.  With a
\* context that is already cancelled Do returns the context's error without
\* sending anything; otherwise the request is on the wire.
Do ==
    /\ pc = "send"
    /\ nreq' = nreq + 1
    /\ IF ctxDone
       THEN /\ FailAttempt(NetFail("canceled"), Wrap("failed to execute request", CtxErr))
            /\ posts' = posts
            /\ trace' = trace
            /\ wire' = NoWire
            /\ bodyReader' = bodyReader
       ELSE /\ pc' = "flight"
            /\ posts' = IF stage = "post" THEN posts + 1 ELSE posts
            /\ trace' = Sent(trace, Request(stage, call, user))
            /\ wire' = OnWire(client, attempt, bodyReader,
                              Request(stage, call, user))
            /\ bodyReader' = [bodyReader EXCEPT !.unread = FALSE]
            /\ UNCHANGED <<attempt, lastErr, log, dr>>
    /\ resp' = NoResp
    /\ UNCHANGED <<op, stage, ctxDone, cancelAt, result, call, user, okSeen,
                   waits>>

\* doRequest makes its request; nothing outside the client changes yet.
Send == Do /\ UNCHANGED outside

\* c.httpClient.Do returns an error: the connection failed or timed out.
TransportFailure ==
    /\ pc = "flight"
    /\ FailAttempt(NetFail("transport"),
                   Wrap("failed to execute request", Leaf("transport error")))
    /\ UNCHANGED <<op, stage, nreq, posts, ctxDone, cancelAt, result, call,
                   user, trace, okSeen, io, outside>>

\* c.httpClient.Do returns the error of the context cancelled in flight.
FlightCancelled ==
    /\ pc = "flight"
    /\ ctxDone
    /\ FailAttempt(NetFail("canceled"), Wrap("failed to execute request", CtxErr))
    /\ UNCHANGED <<op, stage, nreq, posts, ctxDone, cancelAt, result, call,
                   user, trace, okSeen, io, outside>>

\* `respBody, err := io.ReadAll(resp.Body)` with err != nil: what the client
\* does with it
ReadFailed ==
    /\ pc = "flight"
    /\ FailAttempt(NetFail("readfail"),
                   Wrap("failed to read response body", Leaf("read error")))
    /\ UNCHANGED <<op, stage, nreq, posts, ctxDone, cancelAt, result, call,
                   user, trace, okSeen, io>>

\* io.ReadAll(resp.Body) returns an error.
ReadFailure == ReadFailed /\ UNCHANGED outside

\* Plausible slip: the response of the last attempt is handed back to the
\* caller whatever its status, as retry loops often do.
Received_lastResponse(statusCode, body) ==
    /\ pc = "flight"
    /\ IF shouldRetry(statusCode) /\ LoopCond(attempt + 1)
       THEN FailAttempt(Status(statusCode), RetryableErr(statusCode, body))
       ELSE /\ log' = Append(log, Status(statusCode))
            /\ pc' = "returned"
            /\ dr' = Response(statusCode, body)
            /\ UNCHANGED <<attempt, lastErr>>
    /\ okSeen' = IF statusCode \in {200, 201} THEN okSeen \cup {stage}
                 ELSE okSeen
    /\ resp' = [set |-> TRUE, status |-> statusCode, body |-> body]
    /\ UNCHANGED <<op, stage, nreq, posts, ctxDone, cancelAt, result, call,
                   user, trace, bodyReader, wire, waits>>

\* A response was read completely: `if c.shouldRetry(resp.StatusCode)` then
\* record an APIError and continue, else `return resp, respBody, nil`.
\* A response that is complete before the cancellation reaches the
\* transport is handled like any other: doRequest does not look at the
\* context here.
Received(statusCode, body) ==
    /\ pc = "flight"
    /\ IF shouldRetry(statusCode)
       THEN FailAttempt(Status(statusCode), RetryableErr(statusCode, body))
       ELSE /\ log' = Append(log, Status(statusCode))
            /\ pc' = "returned"
            /\ dr' = Response(statusCode, body)
            /\ UNCHANGED <<attempt, lastErr>>
    /\ okSeen' = IF statusCode \in {200, 201} THEN okSeen \cup {stage}
                 ELSE okSeen
    /\ resp' = [set |-> TRUE, status |-> statusCode, body |-> body]
    /\ UNCHANGED <<op, stage, nreq, posts, ctxDone, cancelAt, result, call,
                   user, trace, bodyReader, wire, waits>>

\* Some server answers the request in flight with this status and body.
Respond(statusCode, body) == Received(statusCode, body) /\ UNCHANGED outside

\* Plausible slip: the timer may win the select although the context is
\* already done.
WaitElapsed_ignoresCtx ==
    /\ pc = "wait"
    /\ pc' = "send"
    /\ waits' = Append(waits, WaitFor(attempt))
    /\ bodyReader' = ResetReader(bodyReader)
    /\ UNCHANGED <<op, stage, attempt, lastErr, nreq, log, posts, ctxDone,
                   cancelAt, dr, result, call, user, trace, okSeen, wire,
                   resp, outside>>

\* Plausible slip: the select has no timer case, so that the wait ends
\* with the cancellation only.
WaitElapsed_noTimer ==
    /\ pc = "wait"
    /\ FALSE
    /\ UNCHANGED vars

\* `case <-time.After(wait):` the backoff wait is over.  The wait is at
\* least one second, so the timer is never ready when the select is
\* entered, and a goroutine woken by ctx.Done() takes that case.
WaitElapsed ==
    /\ pc = "wait"
    /\ ~ctxDone
    /\ pc' = "send"
    /\ waits' = Append(waits, WaitFor(attempt))
    /\ bodyReader' = ResetReader(bodyReader)
    /\ UNCHANGED <<op, stage, attempt, lastErr, nreq, log, posts, ctxDone,
                   cancelAt, dr, result, call, user, trace, okSeen, wire,
                   resp, outside>>

\* Plausible slip: the cancelled wait leaves the loop (`break`) instead of
\* returning, so the context's error comes out as the cause of "max
\* retries exceeded".
WaitCancelled_wrapped ==
    /\ pc = "wait"
    /\ ctxDone
    /\ pc' = "returned"
    /\ dr' = Failure(Wrap("max retries exceeded", CtxErr))
    /\ UNCHANGED <<op, stage, attempt, lastErr, nreq, log, posts, ctxDone,
                   cancelAt, result, call, user, trace, okSeen, io, outside>>

\* `case <-ctx.Done(): return nil, nil, ctx.Err()`
WaitCancelled ==
    /\ pc = "wait"
    /\ ctxDone
    /\ pc' = "returned"
    /\ dr' = Failure(CtxErr)
    /\ UNCHANGED <<op, stage, attempt, lastErr, nreq, log, posts, ctxDone,
                   cancelAt, result, call, user, trace, okSeen, io, outside>>

\* The caller cancels the context while the operation is running.
Cancel ==
    /\ pc \in {"send", "flight", "wait"}
    /\ ~ctxDone
    /\ ctxDone' = TRUE
    /\ cancelAt' = [pc |-> pc, attempt |-> attempt, nreq |-> nreq]
    /\ UNCHANGED <<op, stage, pc, attempt, lastErr, nreq, log, posts, dr,
                   result, call, user, trace, okSeen, io, outside>>

-----------------------------------------------------------------------------
(* The resource operations: what each does with doRequest's return.        *)

\* Plausible slip: the half-decoded Cache is returned with the error.
GetCacheResult_valueWithError(d) ==
    IF d.err # Nil THEN Result("nil", d.err)
    ELSE IF d.status # 200
    THEN Result("nil", handleErrorResponse(d.status, d.body))
    ELSE IF ~d.body.valid
    THEN [val |-> "cache", data |-> DecodeCache(d.body),
          err |-> Wrap("failed to unmarshal cache response",
                       Leaf("json error")),
          set |-> TRUE]
    ELSE Value("cache", DecodeCache(d.body))

\* Plausible slip: the decoding error is reported like a refused request,
\* through handleErrorResponse.
GetCacheResult_decodeAsAPIError(d) ==
    IF d.err # Nil THEN Result("nil", d.err)
    ELSE IF d.status # 200 \/ ~d.body.valid
    THEN Result("nil", handleErrorResponse(d.status, d.body))
    ELSE Value("cache", DecodeCache(d.body))

\* GetCache after doRequest: the error as it is; a status other than 200
\* through handleErrorResponse; a body that does not decode as a decoding
\* error; else the Cache.
GetCacheResult(d) ==
    IF d.err # Nil THEN Result("nil", d.err)
    ELSE IF d.status # 200
    THEN Result("nil", handleErrorResponse(d.status, d.body))
    ELSE IF ~d.body.valid
    THEN Result("nil", Wrap("failed to unmarshal cache response",
                            Leaf("json error")))
    ELSE Value("cache", DecodeCache(d.body))

\* Plausible slip: every 2xx status is taken for success.
GetUserResult_any2xx(d) ==
    IF d.err # Nil THEN Result("nil", d.err)
    ELSE IF d.status \notin 200..299
    THEN Result("nil", handleErrorResponse(d.status, d.body))
    ELSE IF ~d.body.valid
    THEN Result("nil", Wrap("failed to unmarshal user response",
                            Leaf("json error")))
    ELSE Value("user", DecodeUser(d.body))

\* GetUser after doRequest, likewise.
GetUserResult(d) ==
    IF d.err # Nil THEN Result("nil", d.err)
    ELSE IF d.status # 200
    THEN Result("nil", handleErrorResponse(d.status, d.body))
    ELSE IF ~d.body.valid
    THEN Result("nil", Wrap("failed to unmarshal user response",
                            Leaf("json error")))
    ELSE Value("user", DecodeUser(d.body))

\* Plausible slip: a 404 is taken for "already deleted" inside the client.
DeleteCacheResult_404ok(d) ==
    IF d.err # Nil THEN Result("nil", d.err)
    ELSE IF d.status # 200 /\ d.status # 204 /\ d.status # 404
    THEN Result("nil", handleErrorResponse(d.status, d.body))
    ELSE Result("nil", Nil)

\* DeleteCache after doRequest: 200 and 204 are success.
DeleteCacheResult(d) ==
    IF d.err # Nil THEN Result("nil", d.err)
    ELSE IF d.status # 200 /\ d.status # 204
    THEN Result("nil", handleErrorResponse(d.status, d.body))
    ELSE Result("nil", Nil)

\* The operation returns to its caller.
Return(r) ==
    /\ pc' = "done"
    /\ result' = r
    /\ UNCHANGED <<op, stage, attempt, lastErr, nreq, log, posts, ctxDone,
                   cancelAt, dr, call, trace, okSeen, io, outside>>

GetCacheReturn ==
    /\ pc = "returned"
    /\ op = "GetCache"
    /\ Return(GetCacheResult(dr))
    /\ UNCHANGED user

GetUserReturn ==
    /\ pc = "returned"
    /\ op = "GetUser"
    /\ Return(GetUserResult(dr))
    /\ UNCHANGED user

DeleteCacheReturn ==
    /\ pc = "returned"
    /\ op = "DeleteCache"
    /\ Return(DeleteCacheResult(dr))
    /\ UNCHANGED user

\* Plausible slip: the failure of GetUser is returned as it is.
CreateCacheAfterUser_unwrapped ==
    /\ pc = "returned"
    /\ op = "CreateCache"
    /\ stage = "user"
    /\ user' = GetUserResult(dr).data
    /\ IF GetUserResult(dr).err # Nil
       THEN Return(Result("nil", GetUserResult(dr).err))
       ELSE /\ EnterDoRequest("post")
            /\ UNCHANGED <<op, posts, ctxDone, cancelAt, result, call, trace,
                           okSeen, outside>>

\* CreateCache after its GetUser: a failure is wrapped and returned, else
\* the POST is started.
CreateCacheAfterUser ==
    /\ pc = "returned"
    /\ op = "CreateCache"
    /\ stage = "user"
    /\ user' = GetUserResult(dr).data
    /\ IF GetUserResult(dr).err # Nil
       THEN Return(Result("nil", Wrap("failed to get user for cache creation",
                                      GetUserResult(dr).err)))
       ELSE /\ EnterDoRequest("post")
            /\ UNCHANGED <<op, posts, ctxDone, cancelAt, result, call, trace,
                           okSeen, outside>>

\* Plausible slip: every 2xx status of the POST is taken for "created".
PostAccepted_any2xx(statusCode) == statusCode \in 200..299

\* `resp.StatusCode != http.StatusOK && resp.StatusCode != http.StatusCreated`
\* negated: the statuses CreateCache takes for success of its POST
PostAccepted(statusCode) == statusCode = 200 \/ statusCode = 201

\* CreateCache after its POST: an error of doRequest as it is, a status
\* other than 200 and 201 through handleErrorResponse, else the follow-up
\* GetCache is started.
CreateCacheAfterPost ==
    /\ pc = "returned"
    /\ op = "CreateCache"
    /\ stage = "post"
    /\ UNCHANGED user
    /\ IF dr.err # Nil
       THEN Return(Result("nil", dr.err))
       ELSE IF ~PostAccepted(dr.status)
       THEN Return(Result("nil", handleErrorResponse(dr.status, dr.body)))
       ELSE /\ EnterDoRequest("cache")
            /\ UNCHANGED <<op, posts, ctxDone, cancelAt, result, call, trace,
                           okSeen, outside>>

\* Plausible slip: when the follow-up GetCache fails, the cache is made of
\* what CreateCache was called with, since the POST has succeeded.
CreateCacheAfterGet_fallback ==
    /\ pc = "returned"
    /\ op = "CreateCache"
    /\ stage = "cache"
    /\ UNCHANGED user
    /\ IF GetCacheResult(dr).err # Nil
       THEN Return(Value("cache", [nil |-> FALSE, id |-> 0,
                                   name |-> call.name]))
       ELSE Return(GetCacheResult(dr))

\* CreateCache after its follow-up GetCache.
CreateCacheAfterGet ==
    /\ pc = "returned"
    /\ op = "CreateCache"
    /\ stage = "cache"
    /\ UNCHANGED user
    /\ IF GetCacheResult(dr).err # Nil
       THEN Return(Result("nil",
                          Wrap("cache created but failed to fetch details",
                               GetCacheResult(dr).err)))
       ELSE Return(GetCacheResult(dr))

\* The locals of the finished call are gone.
Forgotten ==
    /\ pc = "done"
    /\ op' = "none"
    /\ stage' = "none"
    /\ pc' = "idle"
    /\ attempt' = 0
    /\ lastErr' = Nil
    /\ nreq' = 0
    /\ log' = << >>
    /\ posts' = 0
    /\ ctxDone' = FALSE
    /\ cancelAt' = NoCancel
    /\ dr' = NoReturn
    /\ result' = NoResult
    /\ call' = NoArgs
    /\ user' = NoData
    /\ trace' = << >>
    /\ okSeen' = {}
    /\ bodyReader' = NewReader(FALSE)
    /\ wire' = NoWire
    /\ waits' = << >>
    /\ resp' = NoResp

\* The caller is done with the result; the client is idle again.
Reset == Forgotten /\ UNCHANGED outside

Next ==
    \/ \E o \in Ops : \E a \in Args(o) : Start(o, a)
    \/ Send
    \/ TransportFailure
    \/ FlightCancelled
    \/ ReadFailure
    \/ \E s \in Statuses, b \in Bodies : Respond(s, b)
    \/ WaitElapsed
    \/ WaitCancelled
    \/ Cancel
    \/ GetCacheReturn
    \/ GetUserReturn
    \/ DeleteCacheReturn
    \/ CreateCacheAfterUser
    \/ CreateCacheAfterPost
    \/ CreateCacheAfterGet
    \/ Reset

Spec == Init /\ [][Next]_vars

-----------------------------------------------------------------------------
(* The pure helpers on their own: a helper is called on one input and     *)
(* returns before the next call.                                           *)

CallShouldRetry(statusCode) ==
    /\ pure = NoCall
    /\ pure' = [NoCall EXCEPT !.fn = "shouldRetry", !.status = statusCode,
                             !.out = shouldRetry(statusCode)]
    /\ UNCHANGED <<clientVars, remote, first, config, provider, others>>

\* the largest attempt number calculateBackoff is called with
MaxAttempt == 12

\* the bodies handleErrorResponse is called with: text that is not JSON,
\* and JSON objects with "error" and "message" present or absent, as
\* strings or (badtype) one of them with a value of another type
PureBodies ==
    {b \in [valid : BOOLEAN, error : {"", "E"}, message : {"", "M"},
            badtype : BOOLEAN, id : {0}, name : {""}] :
        /\ ~b.valid => (b.error = "" /\ b.message = "" /\ ~b.badtype)
        /\ b.badtype => (b.error = "" \/ b.message = "")}

CallHandleErrorResponse(statusCode, body) ==
    /\ pure = NoCall
    /\ pure' = [NoCall EXCEPT !.fn = "handleErrorResponse",
                             !.status = statusCode, !.body = body,
                             !.err = handleErrorResponse(statusCode, body)]
    /\ UNCHANGED <<clientVars, remote, first, config, provider, others>>

CallCalculateBackoff(a) ==
    /\ pure = NoCall
    /\ pure' = [NoCall EXCEPT !.fn = "calculateBackoff", !.attempt = a,
                             !.wait = calculateBackoff(a)]
    /\ UNCHANGED <<clientVars, remote, first, config, provider, others>>

\* the caller is done with what the helper returned
\* A Cache is encoded, as the servers of the tests do it, and what was
\* written is decoded, as GetCache does it.
CallCacheRoundTrip(c) ==
    /\ pure = NoCall
    /\ pure' = [NoCall EXCEPT !.fn = "roundTrip", !.cache = c,
                             !.json = MarshalCache(c),
                             !.back = UnmarshalCache(MarshalCache(c))]
    /\ UNCHANGED <<clientVars, remote, first, config, provider, others>>

\* The APIErrorHandler the calls are made on: ResourceType "Cache",
\* ResourceName "my-cache", Operation "read".
\* capitalize(h.Operation): the first byte less 32, which makes a capital
\* letter of a lower-case one
capitalize(operation) ==
    CASE operation = "create" -> "Create"
      [] operation = "read" -> "Read"
      [] operation = "delete" -> "Delete"

\* the error diagnostic with this summary whose detail begins so
Diagnostic(summary, detail) == [summary |-> summary, detail |-> detail]

\* the summaries and details Handle makes for Operation "read" and
\* ResourceType "Cache"
NotFoundSummary == "Cache Not Found"

UnableSummary == "Unable to Read Cache"

\* Plausible slip: the type assertion err.(*APIError) of the resource
\* methods instead of errors.As.
Handle_noUnwrap(err) ==
    IF err = Nil THEN [handled |-> FALSE, diags |-> << >>]
    ELSE [handled |-> TRUE,
          diags |->
            IF Head(err).k = "api"
            THEN CASE Head(err).status \in {401, 403} ->
                        <<Diagnostic("Authentication Error",
                                     "authentication failed")>>
                   [] Head(err).status = 404 ->
                        <<Diagnostic(NotFoundSummary, "was not found")>>
                   [] OTHER ->
                        IF Head(err).status >= 500
                        THEN <<Diagnostic("Server Error",
                                          "A server error occurred")>>
                        ELSE <<Diagnostic(UnableSummary,
                                          "An error occurred")>>
            ELSE <<Diagnostic(UnableSummary,
                              "An unexpected error occurred")>>]

\* func (h *APIErrorHandler) Handle(err error) bool, and the diagnostics it
\* adds
Handle(err) ==
    IF err = Nil THEN [handled |-> FALSE, diags |-> << >>]
    ELSE [handled |-> TRUE,
          diags |->
            IF ErrorsAs(err) # Nil
            THEN CASE Head(ErrorsAs(err)).status \in {401, 403} ->
                        <<Diagnostic("Authentication Error",
                                     "authentication failed")>>
                   [] Head(ErrorsAs(err)).status = 404 ->
                        <<Diagnostic(NotFoundSummary, "was not found")>>
                   [] OTHER ->
                        IF Head(ErrorsAs(err)).status >= 500
                        THEN <<Diagnostic("Server Error",
                                          "A server error occurred")>>
                        ELSE <<Diagnostic(UnableSummary,
                                          "An error occurred")>>
            ELSE <<Diagnostic(UnableSummary,
                              "An unexpected error occurred")>>]

\* func (h *APIErrorHandler) HandleNotFoundAsRemoved(err error)
\* (shouldReturn bool, wasNotFound bool)
HandleNotFoundAsRemoved(err) ==
    IF err = Nil
    THEN [shouldReturn |-> FALSE, wasNotFound |-> FALSE, diags |-> << >>]
    ELSE IF ErrorsAs(err) # Nil /\ Head(ErrorsAs(err)).status = 404
    THEN [shouldReturn |-> TRUE, wasNotFound |-> TRUE, diags |-> << >>]
    ELSE [shouldReturn |-> Handle(err).handled, wasNotFound |-> FALSE,
          diags |-> Handle(err).diags]

\* the statuses of the APIErrors the handler is called with
HandlerStatuses == {400, 401, 403, 404, 409, 429, 499, 500, 503}

\* layers of fmt.Errorf("...: %w", err) around an error, as the client adds
\* them
RECURSIVE Layers(_, _)
Layers(err, n) ==
    IF n = 0 THEN err ELSE Wrap("max retries exceeded", Layers(err, n - 1))

\* the errors the handler is called with: nil, an APIError, an error that
\* is none, and these with up to MaxWrapDepth layers around them
HandlerErrors ==
    {Nil}
    \cup {Layers(e, n) :
            e \in {APIError(st, "M", BodyErrJSON) : st \in HandlerStatuses}
                  \cup {Leaf("transport error"), CtxErr},
            n \in 0..MaxWrapDepth}

CallHandle(err) ==
    /\ pure = NoCall
    /\ pure' = [NoCall EXCEPT !.fn = "Handle", !.arg = err,
                             !.handled = Handle(err).handled,
                             !.diags = Handle(err).diags]
    /\ UNCHANGED <<clientVars, remote, first, config, provider, others>>

CallHandleNotFoundAsRemoved(err) ==
    /\ pure = NoCall
    /\ pure' = [NoCall EXCEPT
                  !.fn = "HandleNotFoundAsRemoved", !.arg = err,
                  !.handled = HandleNotFoundAsRemoved(err).shouldReturn,
                  !.notFound = HandleNotFoundAsRemoved(err).wasNotFound,
                  !.diags = HandleNotFoundAsRemoved(err).diags]
    /\ UNCHANGED <<clientVars, remote, first, config, provider, others>>

PureReturn ==
    /\ pure # NoCall
    /\ pure' = NoCall
    /\ UNCHANGED <<clientVars, remote, first, config, provider, others>>

NextPure ==
    \/ PureReturn
    \/ \E s \in StatusCodes : CallShouldRetry(s)
    \/ \E s \in StatusCodes, b \in PureBodies : CallHandleErrorResponse(s, b)
    \/ \E a \in 1..MaxAttempt : CallCalculateBackoff(a)
    \/ \E c \in Caches : CallCacheRoundTrip(c)
    \/ \E e \in HandlerErrors : CallHandle(e)
    \/ \E e \in HandlerErrors : CallHandleNotFoundAsRemoved(e)

SpecPure == Init /\ [][NextPure]_vars

-----------------------------------------------------------------------------
(* DeleteCache called twice on a cache that exists, against a server that  *)
(* keeps the caches: `remote` is the set of names that exist.  Nobody else *)
(* changes it.  The context is never cancelled here.                       *)

TheCache == "test-cache"

\* what the server answers to DELETE /cache/{name}: success when the cache
\* exists, 404 when it does not
DeleteStatuses(exists) == IF exists THEN {200, 204} ELSE {404}

\* statuses of a server or proxy that cannot serve the request now
BusyStatuses == {429, 500, 503}

InitDelete ==
    /\ InitClient
    /\ remote = {TheCache}
    /\ first = NoFirst
    /\ config = NoConfig
    /\ provider = NoProvider
    /\ pure = NoCall
    /\ InitOthers

\* the first DeleteCache(ctx, name)
FirstDelete ==
    /\ ~first.set
    /\ Start("DeleteCache", [name |-> TheCache, isPublic |-> FALSE])

\* The server handles the DELETE and the client reads its response.
ServerDelete(statusCode, body) ==
    /\ stage = "delete"
    /\ statusCode \in DeleteStatuses(call.name \in remote)
    /\ Received(statusCode, body)
    /\ remote' = remote \ {call.name}
    /\ UNCHANGED <<first, config, provider, pure, others>>

\* The server handles the DELETE and answers, and reading the body of the
\* response fails: `io.ReadAll(resp.Body)` returns an error after the
\* request took effect.
ServerDeleteReadFailure ==
    /\ stage = "delete"
    /\ ReadFailed
    /\ remote' = remote \ {call.name}
    /\ first' = IF call.name \in remote THEN [first EXCEPT !.lost = TRUE]
                ELSE first
    /\ UNCHANGED <<config, provider, pure, others>>

\* The server, or a proxy before it, refuses the request for now.
ServerBusy(statusCode, body) ==
    /\ statusCode \in BusyStatuses
    /\ Respond(statusCode, body)

\* The first call has returned; its result is kept and the caller calls
\* DeleteCache(ctx, name) again.
SecondDelete ==
    /\ pc = "done"
    /\ ~first.set
    /\ first' = [first EXCEPT !.set = TRUE, !.err = result.err]
    /\ EnterDoRequest("delete")
    /\ result' = NoResult
    /\ UNCHANGED <<op, posts, ctxDone, cancelAt, call, user, trace, okSeen,
                   remote, config, provider, pure, others>>

NextDelete ==
    \/ FirstDelete
    \/ Send
    \/ TransportFailure
    \/ \E s \in Statuses, b \in Bodies : ServerDelete(s, b)
    \/ ServerDeleteReadFailure
    \/ \E s \in Statuses, b \in Bodies : ServerBusy(s, b)
    \/ WaitElapsed
    \/ DeleteCacheReturn
    \/ SecondDelete

SpecDelete == InitDelete /\ [][NextDelete]_vars

-----------------------------------------------------------------------------
(* The provider's Configure, on every configuration of its schema, and the *)
(* Configure of a resource that follows it.  req.Config.Get reads two      *)
(* string attributes into types.String fields, which hold null and         *)
(* unknown, so it reports no error.                                        *)

DefaultAPIHost == "https://app.cachix.org/api/v1"

Configs ==
    {c \in [explicit : {"null", "unknown", "value"},
            token : {"", "explicit-token"},
            env : {"", "env-token"},
            host : {"null", "unknown", "https://custom.example.com/api/v1"},
            version : {"test", "dev", "1.0.0"}] :
        c.explicit # "value" => c.token = ""}

InitConfigure ==
    /\ InitClient
    /\ remote = {}
    /\ first = NoFirst
    /\ config \in Configs
    /\ provider = NoProvider
    /\ pure = NoCall
    /\ InitOthers

\* Plausible slip: the environment variable wins when it is set.
ResolveToken_envFirst(c) ==
    IF c.env # "" THEN c.env
    ELSE IF c.explicit = "value" THEN c.token
    ELSE ""

\* Plausible slip: an auth_token that is set to "" counts as not set, so
\* that the environment variable is used.
ResolveToken_emptyFallsBack(c) ==
    IF c.explicit = "value" /\ c.token # "" THEN c.token ELSE c.env

\* `authToken := os.Getenv("CACHIX_AUTH_TOKEN")`, overridden by auth_token
\* `if !config.AuthToken.IsNull() && !config.AuthToken.IsUnknown()`
ResolveToken(c) == IF c.explicit = "value" THEN c.token ELSE c.env

\* `apiHost := "https://app.cachix.org/api/v1"`, overridden by api_host
ResolveHost(c) ==
    IF c.host \notin {"null", "unknown"} THEN c.host ELSE DefaultAPIHost

\* Plausible slip: the empty token is not rejected.
Configure_noCheck ==
    /\ ~provider.configured
    /\ provider' =
         [provider EXCEPT
            !.configured = TRUE,
            !.client = NewCachixClient(ResolveHost(config),
                                       ResolveToken(config), config.version),
            !.DataSourceData = NewCachixClient(ResolveHost(config),
                                               ResolveToken(config),
                                               config.version),
            !.ResourceData = NewCachixClient(ResolveHost(config),
                                             ResolveToken(config),
                                             config.version)]
    /\ UNCHANGED <<clientVars, remote, first, config, pure, others>>

\* func (p *CachixProvider) Configure(ctx, req, resp)
Configure ==
    /\ ~provider.configured
    /\ provider' =
         IF ResolveToken(config) = ""
         THEN [provider EXCEPT
                 !.configured = TRUE,
                 !.errors = {"Missing Cachix API Token"}]
         ELSE [provider EXCEPT
                 !.configured = TRUE,
                 !.client = NewCachixClient(ResolveHost(config),
                                            ResolveToken(config),
                                            config.version),
                 !.DataSourceData = NewCachixClient(ResolveHost(config),
                                                    ResolveToken(config),
                                                    config.version),
                 !.ResourceData = NewCachixClient(ResolveHost(config),
                                                  ResolveToken(config),
                                                  config.version)]
    /\ UNCHANGED <<clientVars, remote, first, config, pure, others>>

\* func (r *CacheResource) Configure(ctx, req, resp), called with the
\* ResourceData of the provider: `if req.ProviderData == nil { return }`,
\* else `r.client = client`
ResourceConfigure ==
    /\ provider.configured
    /\ ~provider.rconfigured
    /\ provider' =
         [provider EXCEPT
            !.rconfigured = TRUE,
            !.rclient = IF provider.ResourceData.set
                        THEN provider.ResourceData
                        ELSE provider.rclient]
    /\ UNCHANGED <<clientVars, remote, first, config, pure, others>>

NextConfigure ==
    \/ Configure
    \/ ResourceConfigure

SpecConfigure == InitConfigure /\ [][NextConfigure]_vars

-----------------------------------------------------------------------------
(* Two goroutines call GetCache on the same client at the same time, each  *)
(* for its own cache.  par[g] holds the locals of the doRequest of         *)
(* goroutine g and what its GetCache returned; the client's fields are     *)
(* read by both.  The steps of the two interleave in every way.            *)

Goroutines == {1, 2}

ParName(g) == IF g = 1 THEN "cache-a" ELSE "cache-b"

\* the statuses the server answers the parallel calls with
ParStatuses == {200, 404, 503}

\* the body the server sends with a status
ParBody(statusCode) == IF statusCode = 200 THEN BodyJSON ELSE BodyErrJSON

ParIdle(g) ==
    [name |-> ParName(g), pc |-> "idle", attempt |-> 0, lastErr |-> Nil,
     nreq |-> 0, log |-> << >>, dr |-> NoReturn, result |-> NoResult]

\* everything but the goroutines' locals
notPar ==
    <<clientVars, remote, first, config, provider, pure, client, external,
      resource, sent, adapter>>

InitConcurrent ==
    /\ InitClient
    /\ remote = {}
    /\ first = NoFirst
    /\ config = NoConfig
    /\ provider = NoProvider
    /\ pure = NoCall
    /\ client = TheClient
    /\ external = FALSE
    /\ resource = NoResource
    /\ sent = 0
    /\ adapter = NoAdapter
    /\ par = [g \in Goroutines |-> ParIdle(g)]

\* Plausible slip: the attempt counter is a field of the client, which the
\* goroutines share.
NextAttempt_shared(p, g) ==
    1 + (CHOOSE m \in {p[h].attempt : h \in Goroutines} :
            \A h \in Goroutines : p[h].attempt <= m)

\* `attempt++` on doRequest's own local
NextAttempt(p, g) == p[g].attempt + 1

\* the locals of goroutine g after an attempt that failed in a way
\* doRequest retries: lastErr, `continue`, the loop condition
ParFailed(p, g, outcome, err) ==
    [p[g] EXCEPT
       !.log = Append(@, outcome),
       !.lastErr = RecordErr(@, err),
       !.attempt = NextAttempt(p, g),
       !.pc = IF LoopCond(NextAttempt(p, g)) THEN "wait" ELSE "returned",
       !.dr = IF LoopCond(NextAttempt(p, g)) THEN @
              ELSE Failure(Wrap("max retries exceeded",
                                RecordErr(p[g].lastErr, err)))]

\* goroutine g calls c.GetCache(ctx, name): the top of doRequest
ParStart(g) ==
    /\ par[g].pc = "idle"
    /\ par' = [par EXCEPT ![g] = [@ EXCEPT !.pc = "send"]]
    /\ UNCHANGED notPar

\* c.httpClient.Do(req) with the headers made of c.authToken, c.userAgent
ParSend(g) ==
    /\ par[g].pc = "send"
    /\ client.set
    /\ par' = [par EXCEPT ![g] = [@ EXCEPT !.pc = "flight",
                                           !.nreq = @ + 1]]
    /\ UNCHANGED notPar

ParTransportFailure(g) ==
    /\ par[g].pc = "flight"
    /\ par' = [par EXCEPT ![g] =
                 ParFailed(par, g, NetFail("transport"),
                           Wrap("failed to execute request",
                                Leaf("transport error")))]
    /\ UNCHANGED notPar

ParRespond(g, statusCode) ==
    /\ par[g].pc = "flight"
    /\ par' = [par EXCEPT ![g] =
                 IF shouldRetry(statusCode)
                 THEN ParFailed(par, g, Status(statusCode),
                                RetryableErr(statusCode, ParBody(statusCode)))
                 ELSE [@ EXCEPT !.log = Append(@, Status(statusCode)),
                                !.pc = "returned",
                                !.dr = Response(statusCode,
                                                ParBody(statusCode))]]
    /\ UNCHANGED notPar

ParWaitElapsed(g) ==
    /\ par[g].pc = "wait"
    /\ par' = [par EXCEPT ![g] = [@ EXCEPT !.pc = "send"]]
    /\ UNCHANGED notPar

\* GetCache of goroutine g returns
ParReturn(g) ==
    /\ par[g].pc = "returned"
    /\ par' = [par EXCEPT ![g] = [@ EXCEPT !.pc = "done",
                                           !.result = GetCacheResult(par[g].dr)]]
    /\ UNCHANGED notPar

NextConcurrent ==
    \E g \in Goroutines :
        \/ ParStart(g)
        \/ ParSend(g)
        \/ ParTransportFailure(g)
        \/ \E s \in ParStatuses : ParRespond(g, s)
        \/ ParWaitElapsed(g)
        \/ ParReturn(g)

SpecConcurrent == InitConcurrent /\ [][NextConcurrent]_vars

-----------------------------------------------------------------------------
(* CreateCache against a server that keeps the set of caches, while an     *)
(* external actor may delete the cache at any moment.  remote is the set   *)
(* of caches on the server and external says that the actor has deleted    *)
(* the cache.                                                              *)

\* the arguments of the CreateCache call
RaceArgs == [name |-> "new-cache", isPublic |-> TRUE]

\* the 404 body the server sends for a cache it does not have
BodyNotFound == BodyErrJSON

InitRace ==
    /\ InitClient
    /\ remote = {}
    /\ first = NoFirst
    /\ config = NoConfig
    /\ provider = NoProvider
    /\ pure = NoCall
    /\ InitOthers

\* CreateCache(ctx, name, isPublic)
RaceCreate == Start("CreateCache", RaceArgs)

\* The server answers GET /user.
ServerUser ==
    /\ stage = "user"
    /\ Respond(200, BodyJSON)

\* The server handles the POST: it creates the cache and answers 200 or
\* 201, or answers 409 when it has a cache of this name.
ServerPost(statusCode) ==
    /\ stage = "post"
    /\ statusCode \in (IF call.name \in remote THEN {409} ELSE {200, 201})
    /\ Received(statusCode, IF statusCode = 409 THEN BodyErrJSON ELSE BodyJSON)
    /\ remote' = remote \cup {call.name}
    /\ UNCHANGED <<first, config, provider, pure, others>>

\* The server handles the POST and creates the cache, and reading the body
\* of its response fails.
ServerPostReadFailure ==
    /\ stage = "post"
    /\ ReadFailed
    /\ remote' = remote \cup {call.name}
    /\ UNCHANGED <<first, config, provider, pure, others>>

\* The server answers the GET of the cache: 200 with the cache when it has
\* it, 404 when it does not.
ServerGet ==
    /\ stage = "cache"
    /\ IF call.name \in remote
       THEN Received(200, BodyJSON)
       ELSE Received(404, BodyNotFound)
    /\ UNCHANGED outside

\* The server cannot serve the request now.
ServerUnavailable == Respond(503, BodyErrJSON)

\* Somebody else deletes the cache.
ExternalDelete ==
    /\ call.name \in remote
    /\ remote' = remote \ {call.name}
    /\ external' = TRUE
    /\ UNCHANGED <<clientVars, first, config, provider, pure, client, par,
                   resource, sent, adapter>>

NextRace ==
    \/ RaceCreate
    \/ Send
    \/ TransportFailure
    \/ ServerUser
    \/ \E s \in {200, 201, 409} : ServerPost(s)
    \/ ServerPostReadFailure
    \/ ServerGet
    \/ ServerUnavailable
    \/ ExternalDelete
    \/ WaitElapsed
    \/ CreateCacheAfterUser
    \/ CreateCacheAfterPost
    \/ CreateCacheAfterGet

SpecRace == InitRace /\ [][NextRace]_vars

-----------------------------------------------------------------------------
(* CacheResource.Read.  The framework hands Read the state of the          *)
(* resource; Read calls GetCache for the name in it and answers with the   *)
(* state to keep and with diagnostics.  A Read returns before the next.    *)

\* the states Read is called with: a cache that was created or imported
\* earlier, with id = name
PriorStates ==
    {[present |-> TRUE, id |-> n, name |-> n, is_public |-> p,
      uri |-> <<"a">>, public_signing_keys |-> NullList] :
        n \in {<<"a">>, <<"a", "a">>}, p \in BOOLEAN}

\* what doRequest can return to GetCache: a response with a status that is
\* not retried, the error of the context, or "max retries exceeded" around
\* the last failure
ReadReturns ==
    {Response(s, b) : s \in {t \in Statuses : ~shouldRetry(t)}, b \in Bodies}
    \cup {Failure(CtxErr)}
    \cup {Failure(Wrap("max retries exceeded", e)) :
            e \in {RetryableErr(s, b) :
                     s \in {t \in Statuses : shouldRetry(t)}, b \in Bodies}
                  \cup {Wrap("failed to execute request",
                             Leaf("transport error"))}}

\* what GetCache can return: an error that it makes of doRequest's return,
\* or the Cache decoded from the body of a 200
GetCacheReturns ==
    {[called |-> TRUE, nil |-> TRUE, cache |-> ZeroCache,
      err |-> GetCacheResult(d).err] :
        d \in {r \in ReadReturns : GetCacheResult(r).err # Nil}}
    \cup {[called |-> TRUE, nil |-> FALSE, cache |-> c, err |-> Nil] :
            c \in Caches}

\* types.ListValueFrom(ctx, types.StringType, slice): a nil slice gives the
\* null list
ListValueFrom(slice) == [null |-> slice.nil, items |-> slice.items]

\* Plausible slip: every APIError takes the resource out of the state.
ReadError_removeOnAPIError(prior, err) ==
    IF Head(err).k = "api"
    THEN [state |-> NoState, diags |-> << >>]
    ELSE [state |-> prior, diags |-> <<"Unable to Read Cache">>]

\* Read when GetCache returned err: `if apiErr, ok := err.(*APIError); ok`
\* looks at err itself, not at what it wraps; 404 removes the resource, 401
\* and 403 and every other error report a diagnostic and leave the state
ReadError(prior, err) ==
    IF Head(err).k = "api"
    THEN CASE Head(err).status = 404 ->
                [state |-> NoState, diags |-> << >>]
           [] Head(err).status \in {401, 403} ->
                [state |-> prior, diags |-> <<"Authentication Error">>]
           [] OTHER ->
                [state |-> prior, diags |-> <<"Unable to Read Cache">>]
    ELSE [state |-> prior, diags |-> <<"Unable to Read Cache">>]

\* Read when GetCache returned the cache: resp.State.Set(ctx, &data)
ReadSucceeded(cache) ==
    [state |-> [present |-> TRUE, id |-> cache.Name, name |-> cache.Name,
                is_public |-> cache.IsPublic, uri |-> cache.URI,
                public_signing_keys |->
                    ListValueFrom(cache.PublicSigningKeys)],
     diags |-> << >>]

InitResource ==
    /\ InitClient
    /\ remote = {}
    /\ first = NoFirst
    /\ config = NoConfig
    /\ provider = NoProvider
    /\ pure = NoCall
    /\ InitOthers

\* Read of a resource that was never configured: r.client == nil
ReadUnconfigured(prior) ==
    /\ ~resource.called
    /\ resource' = [called |-> TRUE, configured |-> FALSE, prior |-> prior,
                    get |-> NoGet, state |-> prior,
                    diags |-> <<"Unconfigured Cachix Client">>]
    /\ UNCHANGED <<clientVars, remote, first, config, provider, pure, client,
                   external, par, sent, adapter>>

\* Read of a configured resource, whose GetCache returns get
Read(prior, get) ==
    /\ ~resource.called
    /\ resource' = [called |-> TRUE, configured |-> TRUE, prior |-> prior,
                    get |-> get,
                    state |-> IF get.err # Nil
                              THEN ReadError(prior, get.err).state
                              ELSE ReadSucceeded(get.cache).state,
                    diags |-> IF get.err # Nil
                              THEN ReadError(prior, get.err).diags
                              ELSE ReadSucceeded(get.cache).diags]
    /\ UNCHANGED <<clientVars, remote, first, config, provider, pure, client,
                   external, par, sent, adapter>>

\* Read has returned.
ReadReturn ==
    /\ resource.called
    /\ resource' = NoResource
    /\ UNCHANGED <<clientVars, remote, first, config, provider, pure, client,
                   external, par, sent, adapter>>

NextResource ==
    \/ \E prior \in PriorStates : ReadUnconfigured(prior)
    \/ \E prior \in PriorStates, get \in GetCacheReturns : Read(prior, get)
    \/ ReadReturn

SpecResource == InitResource /\ [][NextResource]_vars

-----------------------------------------------------------------------------
(* One CreateCache call with the requests of its three doRequest calls     *)
(* counted together in sent.                                               *)

\* what the server answers in any stage: success, or a failure to retry
StageStatuses == {200, 201, 503}

InitStages ==
    /\ InitClient
    /\ remote = {}
    /\ first = NoFirst
    /\ config = NoConfig
    /\ provider = NoProvider
    /\ pure = NoCall
    /\ InitOthers

StagesCreate == \E a \in Args("CreateCache") : Start("CreateCache", a)

\* c.httpClient.Do is called once more by the operation
CountedDo ==
    /\ Do
    /\ sent' = sent + 1
    /\ UNCHANGED <<remote, first, config, provider, pure, client, external,
                   par, resource, adapter>>

NextStages ==
    \/ StagesCreate
    \/ CountedDo
    \/ TransportFailure
    \/ \E s \in StageStatuses : Respond(s, BodyJSON)
    \/ WaitElapsed
    \/ CreateCacheAfterUser
    \/ CreateCacheAfterPost
    \/ CreateCacheAfterGet

SpecStages == InitStages /\ [][NextStages]_vars

-----------------------------------------------------------------------------
(* The methods of the cachix_cache resource and of the two data sources,   *)
(* each run on the client: the method calls its operation of the client,   *)
(* the client makes its requests, and the method turns what the client     *)
(* returned into diagnostics and state.  A method whose receiver holds no  *)
(* client (its Configure got nil provider data) is called as well.         *)

Methods ==
    {"CacheResource.Create", "CacheResource.Read", "CacheResource.Update",
     "CacheResource.Delete", "CacheDataSource.Read", "UserDataSource.Read"}

\* the methods that begin with `if r.client == nil { AddError; return }`
ChecksClient ==
    {"CacheResource.Create", "CacheResource.Read", "CacheResource.Delete"}

\* the operation of the client a method calls
OperationOf(m) ==
    CASE m = "CacheResource.Create" -> "CreateCache"
      [] m = "CacheResource.Read" -> "GetCache"
      [] m = "CacheResource.Delete" -> "DeleteCache"
      [] m = "CacheDataSource.Read" -> "GetCache"
      [] m = "UserDataSource.Read" -> "GetUser"

\* `apiErr, ok := err.(*APIError)`: err itself is an *APIError; what err
\* wraps is not looked at
IsAPIError(err) == err # Nil /\ err[1].k = "api"

\* CacheResource.Create: the summary of the diagnostic for err
CreateError(err) ==
    IF IsAPIError(err)
    THEN IF err[1].status \in {401, 403} THEN <<"Authentication Error">>
         ELSE <<"Unable to Create Cache">>
    ELSE <<"Unable to Create Cache">>

\* Plausible slip: a 404 is reported like any other client error.
DeleteError_reports404(err) ==
    IF IsAPIError(err)
    THEN IF err[1].status \in {401, 403} THEN <<"Authentication Error">>
         ELSE IF err[1].status >= 500 THEN <<"Server Error">>
         ELSE <<"Unable to Delete Cache">>
    ELSE <<"Unable to Delete Cache">>

\* CacheResource.Delete: the diagnostics for err; none for a 404
DeleteError(err) ==
    IF IsAPIError(err)
    THEN IF err[1].status = 404 THEN << >>
         ELSE IF err[1].status \in {401, 403} THEN <<"Authentication Error">>
         ELSE IF err[1].status >= 500 THEN <<"Server Error">>
         ELSE <<"Unable to Delete Cache">>
    ELSE <<"Unable to Delete Cache">>

\* CacheDataSource.Read: the summary of the diagnostic for err
CacheDataSourceError(err) ==
    IF IsAPIError(err)
    THEN IF err[1].status \in {401, 403} THEN <<"Authentication Error">>
         ELSE IF err[1].status = 404 THEN <<"Cache Not Found">>
         ELSE IF err[1].status >= 500 THEN <<"Cachix API Error">>
         ELSE <<"Error Reading Cache">>
    ELSE <<"Error Reading Cache">>

\* UserDataSource.Read: the summary of the diagnostic for err
UserDataSourceError(err) ==
    IF IsAPIError(err)
    THEN IF err[1].status \in {401, 403} THEN <<"Authentication Error">>
         ELSE IF err[1].status = 404 THEN <<"User Not Found">>
         ELSE IF err[1].status >= 500 THEN <<"Cachix API Error">>
         ELSE <<"Error Reading User">>
    ELSE <<"Error Reading User">>

\* Plausible slip: Update is left empty and returns without a diagnostic.
Update_empty(cfg) ==
    [NoAdapter EXCEPT !.method = "CacheResource.Update", !.configured = cfg,
                      !.pc = "returned"]

\* CacheResource.Update: one AddError and nothing else
Update(cfg) ==
    [NoAdapter EXCEPT !.method = "CacheResource.Update", !.configured = cfg,
                      !.pc = "returned",
                      !.diags = <<"Update Not Supported">>]

\* A method that does not call the client: Update, and Create, Read and
\* Delete of a resource without client.  The Read of a data source without
\* client calls d.client.GetCache or d.client.GetUser on the nil pointer,
\* whose doRequest panics at its first use of the receiver (c.baseURL).
WithoutClient(m, cfg) ==
    IF m = "CacheResource.Update" THEN Update(cfg)
    ELSE IF m \in ChecksClient
    THEN [NoAdapter EXCEPT !.method = m, !.pc = "returned",
                           !.diags = <<"Unconfigured Cachix Client">>]
    ELSE [NoAdapter EXCEPT !.method = m, !.pc = "panicked"]

\* The framework calls method m; cfg says whether the receiver holds a
\* client.
MethodCalled(m, cfg) ==
    /\ adapter.pc = "idle"
    /\ pc = "idle"
    /\ IF m = "CacheResource.Update" \/ ~cfg
       THEN /\ adapter' = WithoutClient(m, cfg)
            /\ UNCHANGED clientVars
       ELSE /\ adapter' = [NoAdapter EXCEPT !.method = m, !.configured = TRUE,
                                            !.pc = "calling"]
            /\ \E a \in Args(OperationOf(m)) : Called(OperationOf(m), a)
    /\ UNCHANGED <<remote, first, config, provider, pure, client, external,
                   par, resource, sent>>

\* what the method does when the client has returned r: on an error the
\* diagnostics of the method and `return`; else Create and the Reads store
\* the value in the state.  After a Delete without error diagnostic the
\* framework drops the resource from the state.
AfterClient(m, r) ==
    CASE m = "CacheResource.Create" ->
           IF r.err # Nil
           THEN [NoAdapter EXCEPT !.diags = CreateError(r.err)]
           ELSE [NoAdapter EXCEPT !.written = TRUE, !.name = r.data.name]
      [] m = "CacheResource.Read" ->
           IF r.err # Nil
           THEN [NoAdapter EXCEPT
                   !.diags = ReadError(NoState, r.err).diags,
                   !.removed = IsAPIError(r.err) /\ r.err[1].status = 404]
           ELSE [NoAdapter EXCEPT !.written = TRUE, !.name = r.data.name]
      [] m = "CacheResource.Delete" ->
           IF r.err # Nil
           THEN [NoAdapter EXCEPT !.diags = DeleteError(r.err),
                                  !.removed = DeleteError(r.err) = << >>]
           ELSE [NoAdapter EXCEPT !.removed = TRUE]
      [] m = "CacheDataSource.Read" ->
           IF r.err # Nil
           THEN [NoAdapter EXCEPT !.diags = CacheDataSourceError(r.err)]
           ELSE [NoAdapter EXCEPT !.written = TRUE, !.name = r.data.name]
      [] m = "UserDataSource.Read" ->
           IF r.err # Nil
           THEN [NoAdapter EXCEPT !.diags = UserDataSourceError(r.err)]
           ELSE [NoAdapter EXCEPT !.written = TRUE, !.name = r.data.name]

\* The operation of the client has returned, and the method returns.
MethodReturns ==
    /\ adapter.pc = "calling"
    /\ pc = "done"
    /\ adapter' = [AfterClient(adapter.method, result) EXCEPT
                     !.method = adapter.method, !.configured = TRUE,
                     !.pc = "returned"]
    /\ UNCHANGED <<clientVars, remote, first, config, provider, pure, client,
                   external, par, resource, sent>>

\* The framework is done with the response of the method.
MethodForgotten ==
    /\ adapter.pc = "returned"
    /\ adapter' = NoAdapter
    /\ IF pc = "done" THEN Forgotten ELSE UNCHANGED clientVars
    /\ UNCHANGED <<remote, first, config, provider, pure, client, external,
                   par, resource, sent>>

InitAdapter ==
    /\ InitClient
    /\ remote = {}
    /\ first = NoFirst
    /\ config = NoConfig
    /\ provider = NoProvider
    /\ pure = NoCall
    /\ InitOthers

\* what the server answers the methods with
AdapterStatuses == {200, 201, 204, 401, 403, 404, 409, 429, 500, 503}

NextAdapter ==
    \/ \E m \in Methods, cfg \in BOOLEAN : MethodCalled(m, cfg)
    \/ Send
    \/ TransportFailure
    \/ \E s \in AdapterStatuses : Respond(s, IF s = 200 THEN BodyJSON
                                              ELSE BodyErrJSON)
    \/ Respond(200, BodyGarbage)
    \/ ReadFailure
    \/ WaitElapsed
    \/ Cancel
    \/ WaitCancelled
    \/ FlightCancelled
    \/ GetCacheReturn
    \/ GetUserReturn
    \/ DeleteCacheReturn
    \/ CreateCacheAfterUser
    \/ CreateCacheAfterPost
    \/ CreateCacheAfterGet
    \/ MethodReturns
    \/ MethodForgotten

SpecAdapter == InitAdapter /\ [][NextAdapter]_vars

-----------------------------------------------------------------------------
(* The operations under the assumption that every HTTP attempt and every   *)
(* backoff wait completes, and that the code between them runs on.  The    *)
(* server answers with one status of each class.                           *)

LiveStatuses == {200, 404, 503}

LiveBodies == {BodyJSON, BodyGarbage}

\* c.httpClient.Do and io.ReadAll come back, with a response or an error
AttemptCompletes ==
    \/ TransportFailure
    \/ FlightCancelled
    \/ ReadFailure
    \/ \E s \in LiveStatuses, b \in LiveBodies : Respond(s, b)

\* the select of the backoff wait takes one of its cases
WaitCompletes ==
    \/ WaitElapsed
    \/ WaitCancelled

\* the code of the operation after doRequest has returned
OperationContinues ==
    \/ GetCacheReturn
    \/ GetUserReturn
    \/ DeleteCacheReturn
    \/ CreateCacheAfterUser
    \/ CreateCacheAfterPost
    \/ CreateCacheAfterGet

NextLive ==
    \/ \E o \in Ops : \E a \in Args(o) : Start(o, a)
    \/ Send
    \/ AttemptCompletes
    \/ WaitCompletes
    \/ Cancel
    \/ OperationContinues
    \/ Reset

SpecLive ==
    /\ Init
    /\ [][NextLive]_vars
    /\ WF_vars(Send)
    /\ WF_vars(AttemptCompletes)
    /\ WF_vars(WaitCompletes)
    /\ WF_vars(OperationContinues)

-----------------------------------------------------------------------------
(* Vocabulary of the properties.                                           *)

\* the error carries a "max retries exceeded" layer
HasMaxRetries(err) ==
    \E i \in 1..Len(err) :
        err[i].k = "wrap" /\ err[i].msg = "max retries exceeded"

\* some error of the chain is an APIError with status 404
Has404(err) == \E i \in 1..Len(err) : err[i].k = "api" /\ err[i].status = 404

\* errors.Is(err, context.Canceled)
IsCancellation(err) == \E i \in 1..Len(err) : <<err[i]>> = CtxErr

\* the outcome is one the retry policy is to retry: a failure of the
\* network, or a response with status 429 or 5xx
RetryableOutcome(o) ==
    o.kind # "status" \/ o.status = 429 \/ o.status \in 500..599

Last(q) == q[Len(q)]

\* the running doRequest has returned, to the operation or further
Returned == pc \in {"returned", "done"}

\* every response so far was a 503 and every failure was the cancellation:
\* the server "always returns 503" (the operation is then still in its
\* first doRequest)
Always503 ==
    /\ stage = FirstStage(op)
    /\ \A i \in 1..Len(log) : log[i] = Status(503) \/ log[i].kind = "canceled"

\* up to MaxWrapDepth layers fmt.Errorf("...: %w", err) around err
RECURSIVE Wrapped(_, _)
Wrapped(err, n) == IF n = 0 THEN err ELSE Wrap("caller", Wrapped(err, n - 1))

\* the outermost layer of err is fmt.Errorf("<msg>: %w", ...)
HeadIs(err, msg) == err # Nil /\ err[1].k = "wrap" /\ err[1].msg = msg

\* some error of the chain is an *APIError
HasAPIError(err) == \E i \in 1..Len(err) : err[i].k = "api"

\* the chain holds an *APIError, and the first one carries this status
IsAPIErrorWith(err, statusCode) ==
    /\ HasAPIError(err)
    /\ \A i \in 1..Len(err) : err[i].k = "api" => err[i].status = statusCode

\* the requests of a CreateCache(name, isPublic) that runs to its end, for
\* the user its first step returned
CreateCacheRequests(a, u) ==
    <<[method |-> "GET", path |-> "/user", name |-> "", body |-> FALSE,
       isPublic |-> FALSE, generateSigningKey |-> FALSE, accountID |-> 0],
      [method |-> "POST", path |-> "/cache/{name}", name |-> a.name,
       body |-> TRUE, isPublic |-> a.isPublic, generateSigningKey |-> TRUE,
       accountID |-> u.id],
      [method |-> "GET", path |-> "/cache/{name}", name |-> a.name,
       body |-> FALSE, isPublic |-> FALSE, generateSigningKey |-> FALSE,
       accountID |-> 0]>>

\* the statuses the specification names as success of the request of a stage
Accepted(st) ==
    CASE st = "post" -> {200, 201}
      [] st = "delete" -> {200, 204}
      [] OTHER -> {200}

\* the running doRequest ended with a response that is not retried
FinalStatus ==
    /\ pc = "done"
    /\ log # << >>
    /\ Last(log).kind = "status"
    /\ ~RetryableOutcome(Last(log))
    /\ dr.err = Nil

-----------------------------------------------------------------------------
(* C1: one logical request (one run of doRequest) makes at most            *)
(* retryMax + 1 HTTP attempts, whatever the outcomes of its attempts and   *)
(* whenever the context is cancelled.                                      *)
C1_AttemptsBounded == nreq <= retryMax + 1

C1_Witness == pc = "done" /\ nreq = retryMax + 1 /\ Len(log) = retryMax + 1

(* C2: when every attempt ended in a retryable outcome (5xx, 429, a        *)
(* failure of the network) and the context was never cancelled, doRequest  *)
(* returns only after exactly retryMax + 1 requests, with "max retries     *)
(* exceeded" and no response, and the operation returns no value.          *)
C2_ExhaustedAfterAllRetryable ==
    (Returned /\ ~ctxDone /\ \A i \in 1..Len(log) : RetryableOutcome(log[i]))
        => /\ nreq = retryMax + 1
           /\ Len(log) = retryMax + 1
           /\ dr.status = 0
           /\ dr.err # Nil
           /\ Head(dr.err).msg = "max retries exceeded"
           /\ pc = "done" => (result.val = "nil" /\ HasMaxRetries(result.err))

C2_Witness ==
    /\ pc = "done"
    /\ ~ctxDone
    /\ log = <<Status(500), NetFail("transport"), Status(429), Status(500)>>
    /\ HasMaxRetries(result.err)

(* C3: after k retryable outcomes, the attempt that receives a             *)
(* non-retryable status is the last one: k + 1 requests were made, its     *)
(* response is what doRequest returns, and nothing is sent after it.       *)
C3_FirstNonRetryableReturned ==
    (log # << >> /\ Last(log).kind = "status" /\ ~RetryableOutcome(Last(log)))
        => /\ Returned
           /\ nreq = Len(log)
           /\ dr.set /\ dr.err = Nil
           /\ dr.status = Last(log).status
           /\ \A i \in 1..(Len(log) - 1) : RetryableOutcome(log[i])

C3_Witness ==
    /\ pc = "done"
    /\ log = <<Status(503), Status(503), Status(200)>>
    /\ nreq = 3
    /\ result.err = Nil
    /\ result.val = "cache"

(* C4: a response with a status in 400..499 other than 429 is not retried: *)
(* no request follows it, and the operation returns no value and an error  *)
(* whose APIError carries that status.                                     *)
C4_ClientErrorNotRetried ==
    (/\ log # << >>
     /\ Last(log).kind = "status"
     /\ Last(log).status \in (400..499) \ {429})
        => /\ Returned
           /\ nreq = Len(log)
           /\ pc = "done" =>
                 /\ result.val = "nil"
                 /\ ErrorsAs(result.err) # Nil
                 /\ Head(ErrorsAs(result.err)).status = Last(log).status

C4_Witness ==
    /\ pc = "done"
    /\ op = "DeleteCache"
    /\ log = <<Status(404)>>
    /\ nreq = 1
    /\ result.err = APIError(404, "resource not found", BodyJSON)

(* C5: the POST of CreateCache is not sent again after an attempt whose    *)
(* outcome the client does not know: one CreateCache call puts at most one *)
(* POST on the wire.                                                       *)
C5_AtMostOnePost == posts <= 1

(* C6: a context cancelled during a backoff wait ends the wait: no further *)
(* attempt is made, doRequest returns the context's error itself, and the  *)
(* operation's error is that cancellation, not "max retries exceeded".     *)
C6_CancelDuringWait ==
    cancelAt.pc = "wait"
        => /\ pc \in {"wait", "returned", "done"}
           /\ nreq = cancelAt.nreq
           /\ attempt = cancelAt.attempt
           /\ Returned => dr = Failure(CtxErr)
           /\ pc = "done" =>
                 /\ result.val = "nil"
                 /\ IsCancellation(result.err)
                 /\ ~HasMaxRetries(result.err)

C6_Witness ==
    /\ pc = "done"
    /\ cancelAt.pc = "wait"
    /\ cancelAt.attempt = 2
    /\ nreq = 2
    /\ result.err = CtxErr

(* C7, as stated: against a server that always returns 503, a context      *)
(* cancelled before the operation returned, during a backoff wait or while *)
(* any attempt (the last one included) is in flight, makes it return a     *)
(* cancellation error and never "max retries exceeded".                    *)
C7_CancelNeverMaxRetries ==
    (pc = "done" /\ Always503 /\ cancelAt.pc \in {"wait", "flight"})
        => (IsCancellation(result.err) /\ ~HasMaxRetries(result.err))

(* C7, amended: against a server that always returns 503, a context        *)
(* cancelled during a backoff wait, or before or during an attempt other   *)
(* than the last, makes the operation return the context's cancellation    *)
(* error and not "max retries exceeded"; cancelled once the last attempt   *)
(* (attempt number retryMax) has begun, the operation returns "max retries *)
(* exceeded" after retryMax + 1 attempts.                                  *)
C7_CancelBeforeLastAttempt ==
    (pc = "done" /\ ctxDone /\ Always503)
        => IF cancelAt.pc = "wait" \/ cancelAt.attempt < retryMax
           THEN /\ dr = Failure(CtxErr)
                /\ IsCancellation(result.err)
                /\ ~HasMaxRetries(result.err)
           ELSE /\ HasMaxRetries(result.err)
                /\ nreq = retryMax + 1

C7_Witness ==
    /\ pc = "done"
    /\ Always503
    /\ cancelAt.pc = "flight"
    /\ cancelAt.attempt = 1
    /\ log = <<Status(503), NetFail("canceled")>>
    /\ result.err = CtxErr

(* C8: the cause under "max retries exceeded" is the failure of the final  *)
(* attempt (attempt number retryMax), not of an earlier one: the APIError  *)
(* of its status with no message, or its network failure.                  *)
C8_CauseIsFinalFailure ==
    (dr.set /\ dr.err # Nil /\ Head(dr.err).msg = "max retries exceeded")
        => /\ Len(log) = retryMax + 1
           /\ LET cause == Tail(dr.err)
                  final == Last(log)
              IN  CASE final.kind = "status" ->
                         /\ Len(cause) = 1
                         /\ cause[1].k = "api"
                         /\ cause[1].status = final.status
                         /\ cause[1].msg = ""
                    [] final.kind = "transport" ->
                         cause = Wrap("failed to execute request",
                                      Leaf("transport error"))
                    [] final.kind = "readfail" ->
                         cause = Wrap("failed to read response body",
                                      Leaf("read error"))
                    [] final.kind = "canceled" ->
                         cause = Wrap("failed to execute request", CtxErr)

C8_Witness ==
    /\ pc = "done"
    /\ log = <<Status(503), NetFail("transport"), Status(500), Status(429)>>
    /\ result.err = Wrap("max retries exceeded", APIError(429, "", BodyErrJSON))

(* C9: shouldRetry(statusCode) is true exactly for the status codes from   *)
(* 500 up and for 429, for every status code in 100..599.                  *)
C9_ShouldRetryPolicy ==
    pure.fn = "shouldRetry"
        => (pure.out <=> (pure.status \in 500..599 \/ pure.status = 429))

C9_Witness == pure.fn = "shouldRetry" /\ pure.status = 429 /\ pure.out

(* C10: IsNotFoundError is true exactly of the errors whose wrap chain     *)
(* holds an APIError with status 404, however deep; it is false of nil, of *)
(* errors without an APIError, of APIErrors with another status and of     *)
(* every "max retries exceeded" error an operation returns.                *)
C10_IsNotFoundError ==
    pc = "done"
        => \A n \in 0..MaxWrapDepth :
              LET e == Wrapped(result.err, n)
              IN  /\ IsNotFoundError(e) <=> Has404(e)
                  /\ HasMaxRetries(e) => ~IsNotFoundError(e)
                  /\ result.err = Nil => ~IsNotFoundError(e)

C10_Witness ==
    /\ pc = "done"
    /\ op = "CreateCache"
    /\ result.err = Wrap("cache created but failed to fetch details",
                         APIError(404, "resource not found", BodyGarbage))
    /\ IsNotFoundError(Wrapped(result.err, MaxWrapDepth))

-----------------------------------------------------------------------------
(* C11: a CreateCache(name, isPublic) sends GET /user, then                *)
(* POST /cache/{name}, then GET /cache/{name}, in this order and nothing   *)
(* else; the POST is sent only after GetUser returned a user, the final    *)
(* GET only after the POST was answered 200 or 201; the POST body carries  *)
(* the id of that user, generateSigningKey = true and the caller's         *)
(* isPublic; a successful call has sent all three and returns the Cache    *)
(* decoded from the body of the final GET.                                 *)
C11_CreateCacheSequence ==
    op = "CreateCache"
        => /\ Len(trace) <= 3
           /\ trace = SubSeq(CreateCacheRequests(call, user), 1, Len(trace))
           /\ Len(trace) >= 2 => (~user.nil /\ "user" \in okSeen)
           /\ Len(trace) >= 3 => "post" \in okSeen
           /\ (pc = "done" /\ result.err = Nil)
                 => /\ Len(trace) = 3
                    /\ stage = "cache"
                    /\ trace[2].accountID = user.id
                    /\ trace[2].generateSigningKey
                    /\ trace[2].isPublic = call.isPublic
                    /\ result.val = "cache"
                    /\ result.data = [nil |-> FALSE, id |-> 0,
                                      name |-> dr.body.name]

C11_Witness ==
    /\ op = "CreateCache"
    /\ pc = "done"
    /\ result.err = Nil
    /\ call = [name |-> "private-cache", isPublic |-> FALSE]
    /\ Len(trace) = 3
    /\ trace[2].accountID = 12345
    /\ ~trace[2].isPublic
    /\ result.data.name = "test-cache"

(* C12: when the GetUser of CreateCache fails (an APIError, retries        *)
(* exhausted, a body that does not decode, a cancellation), CreateCache    *)
(* returns no Cache and the cause wrapped under "failed to get user for    *)
(* cache creation", and neither the POST nor the follow-up GET is sent.    *)
C12_UserLookupFailure ==
    (op = "CreateCache" /\ user.nil)
        => /\ posts = 0
           /\ \A i \in 1..Len(trace) : trace[i].path = "/user"
           /\ pc = "done"
                 => /\ stage = "user"
                    /\ result.val = "nil"
                    /\ result.data.nil
                    /\ HeadIs(result.err, "failed to get user for cache creation")
                    /\ Tail(result.err) # Nil
                    /\ dr.err # Nil => Tail(result.err) = dr.err
                    /\ (dr.err = Nil /\ dr.status # 200)
                          => IsAPIErrorWith(Tail(result.err), dr.status)
                    /\ (dr.err = Nil /\ dr.status = 200)
                          => ~HasAPIError(result.err)

C12_Witness ==
    /\ op = "CreateCache"
    /\ pc = "done"
    /\ user.nil
    /\ log = <<Status(503), Status(401)>>
    /\ result.err = Wrap("failed to get user for cache creation",
                         APIError(401, "E", BodyErrJSON))
    /\ trace = <<CreateCacheRequests(call, user)[1]>>

(* C13: CreateCache returns the "cache created but failed to fetch         *)
(* details" error exactly when its POST was answered 200 or 201 and the    *)
(* call failed afterwards, that is in its follow-up GetCache; a call that  *)
(* fails at the POST stage never returns that wording and sends no         *)
(* follow-up GET.                                                          *)
C13_CreatedButFetchFailed ==
    (op = "CreateCache" /\ pc = "done")
        => /\ HeadIs(result.err, "cache created but failed to fetch details")
                 <=> ("post" \in okSeen /\ result.err # Nil)
           /\ HeadIs(result.err, "cache created but failed to fetch details")
                 => (stage = "cache" /\ Tail(result.err) # Nil /\ posts >= 1)
           /\ stage = "post"
                 => /\ result.err # Nil
                    /\ \A i \in 1..Len(result.err) :
                          result.err[i].msg
                              # "cache created but failed to fetch details"
                    /\ \A i \in 1..Len(trace) :
                          ~(trace[i].method = "GET"
                            /\ trace[i].path = "/cache/{name}")

C13_Witness ==
    /\ op = "CreateCache"
    /\ pc = "done"
    /\ "post" \in okSeen
    /\ log = <<Status(404)>>
    /\ result.err = Wrap("cache created but failed to fetch details",
                         APIError(404, "resource not found", BodyJSON))

(* C14: for a cache that exists and that nobody else modifies, two         *)
(* DeleteCache calls in sequence, neither of which runs out of retries,    *)
(* return nil for the first and a Not-Found error for the second, also     *)
(* when attempts of the first call fail transiently and are retried.       *)
C14_DeleteTwice ==
    (pc = "done" /\ first.set
       /\ ~HasMaxRetries(first.err) /\ ~HasMaxRetries(result.err))
        => (first.err = Nil /\ IsNotFoundError(result.err))

(* C14 amended: the second call returns a Not-Found error; the first       *)
(* returns nil when the client reads the response of the DELETE that       *)
(* removed the cache, and itself a Not-Found error when that response was  *)
(* lost after the server had removed the cache and the DELETE was retried. *)
(* After the two calls the cache does not exist.                           *)
C14_DeleteTwiceOrNotFound ==
    (pc = "done" /\ first.set
       /\ ~HasMaxRetries(first.err) /\ ~HasMaxRetries(result.err))
        => /\ IsNotFoundError(result.err)
           /\ ~first.lost => first.err = Nil
           /\ first.lost => IsNotFoundError(first.err)
           /\ remote = {}

C14_Witness ==
    /\ pc = "done"
    /\ first.set
    /\ ~first.lost
    /\ first.err = Nil
    /\ log = <<NetFail("transport"), Status(503), Status(404)>>
    /\ result.err = APIError(404, "resource not found", BodyJSON)
    /\ remote = {}

(* C15: an operation succeeds only on the statuses accepted for its        *)
(* request: 200 for the GET of GetCache and GetUser, 200 or 201 for the    *)
(* POST of CreateCache, 200 or 204 for DeleteCache.  Every other status    *)
(* that is not retried, another 2xx included, makes the operation return   *)
(* no value and an APIError with exactly that status.                      *)
C15_StatusAcceptance ==
    /\ (pc = "done" /\ result.err = Nil)
          => (FinalStatus /\ Last(log).status \in Accepted(stage))
    /\ (op = "CreateCache" /\ stage = "cache") => "post" \in okSeen
    /\ FinalStatus
          => /\ Last(log).status \notin Accepted(stage)
                   => /\ result.val = "nil"
                      /\ result.data.nil
                      /\ IsAPIErrorWith(result.err, Last(log).status)
             /\ (Last(log).status \in Accepted(stage) /\ stage = "delete")
                   => result.err = Nil
             /\ (Last(log).status \in Accepted(stage) /\ dr.body.valid)
                   => result.err = Nil

C15_Witness ==
    /\ op = "GetUser"
    /\ FinalStatus
    /\ Last(log) = Status(204)
    /\ result.val = "nil"
    /\ result.err = APIError(204, "", BodyGarbage)

(* C18: a 200 whose body does not decode makes GetCache and GetUser        *)
(* return no value and a decoding error that is no APIError, for which     *)
(* IsNotFoundError is false; the request that was answered is the last     *)
(* one, the decoding failure is not retried.                               *)
C18_DecodeFailure ==
    (log # << >> /\ Last(log) = Status(200) /\ stage \in {"user", "cache"}
       /\ dr.set /\ ~dr.body.valid)
        => /\ Returned
           /\ nreq = Len(log)
           /\ \A i \in 1..(Len(log) - 1) : log[i] # Status(200)
           /\ pc = "done"
                 => /\ result.val = "nil"
                    /\ result.data.nil
                    /\ result.err # Nil
                    /\ ~HasAPIError(result.err)
                    /\ ~IsNotFoundError(result.err)
                    /\ op \in {"GetCache", "GetUser"}
                          => result.err \in
                               {Wrap("failed to unmarshal cache response",
                                     Leaf("json error")),
                                Wrap("failed to unmarshal user response",
                                     Leaf("json error"))}

C18_Witness ==
    /\ op = "GetCache"
    /\ pc = "done"
    /\ nreq = 1
    /\ log = <<Status(200)>>
    /\ dr.body = BodyGarbage
    /\ result.err = Wrap("failed to unmarshal cache response",
                         Leaf("json error"))

(* C16: handleErrorResponse returns an APIError with the status and the    *)
(* body it was given, whose Message is the "error" field of the JSON body  *)
(* if non-empty, else its "message" field if non-empty, else the canned    *)
(* text of 401, 403 and 404, else empty; only a body that is not valid     *)
(* JSON has no parsed message.  The code drops both fields as soon as one  *)
(* of them is not a string: json.Unmarshal then returns an error.          *)
C16_MessageFromValidJSON ==
    pure.fn = "handleErrorResponse"
        => pure.err =
             APIError(pure.status,
                      IF pure.body.valid /\ pure.body.error # ""
                        THEN pure.body.error
                      ELSE IF pure.body.valid /\ pure.body.message # ""
                        THEN pure.body.message
                      ELSE IF pure.status = 401
                        THEN "authentication failed: invalid or expired token"
                      ELSE IF pure.status = 403
                        THEN "access denied: insufficient permissions"
                      ELSE IF pure.status = 404 THEN "resource not found"
                      ELSE "",
                      pure.body)

C19_TokenPrecedence ==
    provider.configured
        => /\ (config.explicit = "value" /\ config.token # ""
                 /\ config.env # "")
                 => /\ provider.client.set
                    /\ provider.client.authToken = config.token
                    /\ provider.client.authToken # config.env
                    /\ provider.DataSourceData = provider.client
                    /\ provider.ResourceData = provider.client
                    /\ provider.errors = {}
           /\ (config.explicit # "value" /\ config.env # "")
                 => /\ provider.client.set
                    /\ provider.client.authToken = config.env
                    /\ provider.DataSourceData = provider.client
                    /\ provider.ResourceData = provider.client
                    /\ provider.errors = {}

C19_Witness ==
    /\ provider.configured
    /\ config.explicit = "value"
    /\ config.token = "explicit-token"
    /\ config.env = "env-token"
    /\ provider.ResourceData.authToken = "explicit-token"
    /\ provider.rclient.authToken = "explicit-token"

(* C20: when neither auth_token nor the environment variable holds a       *)
(* token, Configure reports "Missing Cachix API Token", constructs no      *)
(* client and publishes none: DataSourceData and ResourceData stay unset,  *)
(* and a resource configured from them holds no client.                    *)
C20_MissingToken ==
    (provider.configured /\ config.env = ""
       /\ (config.explicit # "value" \/ config.token = ""))
        => /\ provider.errors = {"Missing Cachix API Token"}
           /\ provider.client = NoClient
           /\ provider.DataSourceData = NoClient
           /\ provider.ResourceData = NoClient
           /\ provider.rclient = NoClient

C20_Witness ==
    /\ provider.configured
    /\ provider.rconfigured
    /\ config.explicit = "null"
    /\ config.env = ""
    /\ provider.errors = {"Missing Cachix API Token"}
    /\ ~provider.ResourceData.set
    /\ ~provider.rclient.set

(* C23: no failure is swallowed.  GetCache, GetUser and CreateCache return *)
(* either a value and no error or no value and an error, never neither     *)
(* and never both; an error of doRequest is the cause of the error         *)
(* returned; DeleteCache returns nil only after a DELETE attempt was       *)
(* answered 200 or 204.                                                    *)
C23_ResultXorError ==
    pc = "done"
        => /\ op \in {"GetCache", "GetUser", "CreateCache"}
                 => /\ result.data.nil <=> result.err # Nil
                    /\ result.val = "nil" <=> result.data.nil
           /\ (op = "DeleteCache" /\ result.err = Nil)
                 => /\ stage = "delete"
                    /\ wire.sent
                    /\ resp.set /\ resp.status \in {200, 204}
           /\ dr.err # Nil
                 => /\ result.err # Nil
                    /\ \E i \in 1..Len(result.err) :
                          SubSeq(result.err, i, Len(result.err)) = dr.err

C23_Witness ==
    /\ pc = "done"
    /\ op = "CreateCache"
    /\ stage = "post"
    /\ resp.status = 409
    /\ result.data.nil
    /\ result.err = APIError(409, "E", BodyErrJSON)

(* C24: every attempt of every operation, the first and each retry, is     *)
(* sent with Authorization: Bearer <token>, Content-Type and Accept        *)
(* application/json and User-Agent terraform-provider-cachix/<version>,    *)
(* the token and the version being those the client was constructed with.  *)
C24_HeadersOnEveryAttempt ==
    /\ client = NewCachixClient("http://127.0.0.1", "test-token", "test")
    /\ pc = "flight"
          => /\ wire.sent
             /\ wire.attempt = attempt
             /\ wire.attempt = nreq - 1
             /\ wire.token = "test-token"
             /\ wire.contentType = "application/json"
             /\ wire.accept = "application/json"
             /\ wire.version = "test"

C24_Witness ==
    /\ pc = "flight"
    /\ stage = "post"
    /\ attempt = retryMax
    /\ wire.attempt = retryMax
    /\ wire.token = "test-token"
    /\ wire.version = "test"

C27_BodyOnEveryAttempt ==
    pc = "flight"
        => /\ wire.body <=> stage = "post"
           /\ stage = "post"
                 => /\ wire.complete
                    /\ wire.accountID = user.id
                    /\ wire.generateSigningKey
                    /\ wire.isPublic = call.isPublic
                    /\ trace[Len(trace)].accountID = wire.accountID
                    /\ trace[Len(trace)].isPublic = wire.isPublic

C27_Witness ==
    /\ pc = "flight"
    /\ stage = "post"
    /\ attempt = 2
    /\ wire.attempt = 2
    /\ wire.complete
    /\ wire.accountID = 12345
    /\ wire.isPublic

(* C28: when the last attempt of an exhausted doRequest was answered with  *)
(* a retryable status, the error is "max retries exceeded" around an       *)
(* APIError with the status and the raw body of that last response and an  *)
(* empty Message, whose text therefore shows the raw body.                 *)
C28_ExhaustedOnStatus ==
    (Returned /\ Len(log) = retryMax + 1 /\ Last(log).kind = "status"
       /\ RetryableOutcome(Last(log)))
        => /\ resp.set
           /\ resp.status = Last(log).status
           /\ Len(dr.err) = 2
           /\ HeadIs(dr.err, "max retries exceeded")
           /\ dr.err[2].k = "api"
           /\ dr.err[2].status = resp.status
           /\ dr.err[2].body = resp.body
           /\ dr.err[2].msg = ""
           /\ ErrorText(dr.err[2])
                = [status |-> resp.status, message |-> "", body |-> resp.body]

C28_Witness ==
    /\ pc = "done"
    /\ op = "GetCache"
    /\ log = <<Status(503), Status(503), Status(503), Status(429)>>
    /\ resp = [set |-> TRUE, status |-> 429, body |-> BodyErrJSON]
    /\ result.err = Wrap("max retries exceeded",
                         APIError(429, "", BodyErrJSON))

\* What one doRequest running alone returns, and how many requests it
\* makes, when its i-th request (i = 1, 2, ...) meets outs[i]: the first
\* status that is neither 429 nor 5xx is returned, every other outcome is
\* retried, and after retryMax + 1 requests the last failure is wrapped.
\* While outs is too short for that the call is still running.
RECURSIVE Alone(_, _, _)
Alone(outs, n, last) ==
    IF n = retryMax + 1
    THEN [done |-> TRUE, nreq |-> n,
          dr |-> Failure(Wrap("max retries exceeded", last))]
    ELSE IF n = Len(outs)
    THEN [done |-> FALSE, nreq |-> n, dr |-> NoReturn]
    ELSE IF outs[n + 1].kind = "status" /\ outs[n + 1].status # 429
            /\ outs[n + 1].status < 500
    THEN [done |-> TRUE, nreq |-> n + 1,
          dr |-> Response(outs[n + 1].status, ParBody(outs[n + 1].status))]
    ELSE Alone(outs, n + 1,
               IF outs[n + 1].kind = "status"
               THEN APIError(outs[n + 1].status, "",
                             ParBody(outs[n + 1].status))
               ELSE Wrap("failed to execute request",
                         Leaf("transport error")))

(* C22: when somebody else deletes the cache after the POST of CreateCache *)
(* succeeded and before the follow-up GET is answered, CreateCache returns *)
(* no Cache and "cache created but failed to fetch details" around the 404 *)
(* APIError of the follow-up GetCache.  It never returns a Cache when the  *)
(* follow-up GET reported the cache absent, it sends nothing after that    *)
(* GET, and the client is as it was constructed.                           *)
C22_ExternalDeleteRace ==
    (pc = "done" /\ op = "CreateCache")
        => /\ (stage = "cache" /\ resp.set /\ resp.status = 404)
                => /\ result.val = "nil"
                   /\ result.data.nil
                   /\ result.err
                        = Wrap("cache created but failed to fetch details",
                               APIError(404, "E", BodyNotFound))
                   /\ IsNotFoundError(result.err)
                   /\ "post" \in okSeen
                   /\ Last(log) = Status(404)
                   /\ Last(trace) = CreateCacheRequests(call, user)[3]
                   /\ wire.body = FALSE
           /\ ~result.data.nil
                => /\ stage = "cache"
                   /\ resp.status = 200
                   /\ result.err = Nil
           /\ client = NewCachixClient("http://127.0.0.1", "test-token", "test")

C22_Witness ==
    /\ pc = "done"
    /\ op = "CreateCache"
    /\ external
    /\ remote = {}
    /\ "post" \in okSeen
    /\ stage = "cache"
    /\ resp.status = 404
    /\ HeadIs(result.err, "cache created but failed to fetch details")
    /\ result.data.nil

(* C25: encoding a Cache to its wire JSON and decoding that again yields   *)
(* an equal Cache, for every Cache: also one with no signing keys (a nil   *)
(* slice, or an empty one) and one with an empty createdAt, which is left  *)
(* out of the JSON.                                                        *)
C25_CacheRoundTrip ==
    pure.fn = "roundTrip"
        => /\ pure.back = pure.cache
           /\ pure.json.createdAt.present <=> pure.cache.CreatedAt # << >>
           /\ pure.json.publicSigningKeys.present

C25_Witness ==
    /\ pure.fn = "roundTrip"
    /\ pure.cache.PublicSigningKeys = Slice(<< >>)
    /\ pure.cache.CreatedAt = << >>
    /\ pure.cache.Name = <<"\"", "<">>
    /\ ~pure.json.createdAt.present
    /\ pure.json.name.literal = <<[esc |-> TRUE, text |-> "\""],
                                  [esc |-> TRUE, text |-> "u003c"]>>
    /\ pure.back = pure.cache

\* the terminal states of the request executor, by what the doRequest that
\* ended the operation returned
Success == dr.set /\ dr.err = Nil /\ dr.status \in Accepted(stage)

NonRetryableFailure ==
    dr.set /\ dr.err = Nil /\ dr.status \notin Accepted(stage)
           /\ ~RetryableOutcome(Status(dr.status))

Cancelled == dr.set /\ dr.err = Leaf("context canceled")

AttemptsExhausted == dr.set /\ HeadIs(dr.err, "max retries exceeded")

ExactlyOneTerminal ==
    Cardinality({i \in 1..4 : <<Success, NonRetryableFailure, Cancelled,
                                AttemptsExhausted>>[i]}) = 1

C30_ReadReconciles ==
    (resource.called /\ resource.get.called)
        => /\ IsNotFoundError(resource.get.err)
                => /\ ~resource.state.present
                   /\ resource.diags = << >>
           /\ (resource.get.err # Nil /\ ~IsNotFoundError(resource.get.err))
                => /\ resource.state = resource.prior
                   /\ Len(resource.diags) = 1
           /\ resource.get.err = Nil
                => /\ resource.diags = << >>
                   /\ resource.state.present
                   /\ resource.state.id = resource.get.cache.Name
                   /\ resource.state.name = resource.get.cache.Name
                   /\ resource.state.is_public = resource.get.cache.IsPublic
                   /\ resource.state.uri = resource.get.cache.URI
                   /\ resource.state.public_signing_keys.items
                        = resource.get.cache.PublicSigningKeys.items

C30_Witness ==
    /\ resource.called
    /\ resource.prior.present
    /\ resource.get.err = APIError(404, "resource not found", BodyGarbage)
    /\ ~resource.state.present
    /\ resource.diags = << >>

(* C21: operations running at the same time on one client do not           *)
(* interfere.  The client's fields keep the values of its construction;    *)
(* each operation counts its own attempts and keeps its own last error;    *)
(* and what each returns, and the number of requests it makes, is what it  *)
(* returns and makes alone against the same responses to its requests.     *)
C21_NoInterference ==
    /\ client = NewCachixClient("http://127.0.0.1", "test-token", "test")
    /\ \A g \in Goroutines :
          /\ par[g].pc \in {"send", "flight", "wait"}
                => /\ par[g].attempt = Len(par[g].log)
                   /\ ~Alone(par[g].log, 0, Nil).done
                   /\ par[g].log # << >>
                         => par[g].lastErr
                              = IF Last(par[g].log).kind = "status"
                                THEN APIError(Last(par[g].log).status, "",
                                              ParBody(Last(par[g].log).status))
                                ELSE Wrap("failed to execute request",
                                          Leaf("transport error"))
          /\ par[g].pc \in {"returned", "done"}
                => /\ Alone(par[g].log, 0, Nil).done
                   /\ par[g].dr = Alone(par[g].log, 0, Nil).dr
                   /\ par[g].nreq = Alone(par[g].log, 0, Nil).nreq
                   /\ par[g].nreq = Len(par[g].log)
          /\ par[g].pc = "done"
                => /\ par[g].result.data.nil <=> par[g].result.err # Nil
                   /\ par[g].result.err = Nil
                         <=> Last(par[g].log) = Status(200)
                   /\ HasMaxRetries(par[g].result.err)
                         <=> (\A i \in 1..Len(par[g].log) :
                                RetryableOutcome(par[g].log[i]))

C21_Witness ==
    /\ par[1].pc = "done"
    /\ par[2].pc = "done"
    /\ par[1].log = <<Status(503), NetFail("transport"), Status(200)>>
    /\ par[1].nreq = 3
    /\ par[1].result.err = Nil
    /\ par[2].log = <<Status(503), Status(503), Status(503), Status(503)>>
    /\ par[2].nreq = 4
    /\ HasMaxRetries(par[2].result.err)

(* C36: no operation returns a classified APIError with a retryable        *)
(* status.  An APIError that an operation returns unwrapped has a status   *)
(* below 500 and other than 429; an APIError with status 429 or 5xx is     *)
(* only ever found as the cause inside "max retries exceeded", and         *)
(* doRequest never returns a response with such a status.                  *)
C36_NoRetryableStatusReturned ==
    /\ (dr.set /\ dr.err = Nil) => (dr.status < 500 /\ dr.status # 429)
    /\ pc = "done"
         => /\ (result.err # Nil /\ result.err[1].k = "api")
                 => (result.err[1].status < 500 /\ result.err[1].status # 429)
            /\ \A i \in 1..Len(result.err) :
                 (result.err[i].k = "api"
                    /\ (result.err[i].status >= 500
                          \/ result.err[i].status = 429))
                   => /\ i > 1
                      /\ result.err[i - 1].k = "wrap"
                      /\ result.err[i - 1].msg = "max retries exceeded"
                      /\ result.err[i].msg = ""

C36_Witness ==
    /\ pc = "done"
    /\ op = "DeleteCache"
    /\ log = <<Status(503), Status(429), Status(500), Status(503)>>
    /\ result.err = Wrap("max retries exceeded",
                         APIError(503, "", BodyErrJSON))

\* the effective token: auth_token when the attribute is set (neither null
\* nor unknown), also when it is set to "", else CACHIX_AUTH_TOKEN
EffectiveToken ==
    IF config.explicit = "value" THEN config.token ELSE config.env

(* C37: Configure constructs a client if and only if the effective token   *)
(* is not empty, and the client then carries that token.  An auth_token    *)
(* that is set to the empty string yields "Missing Cachix API Token" and   *)
(* no client, whatever the environment variable holds.                     *)
C37_ClientIffEffectiveToken ==
    provider.configured
        => /\ provider.client.set <=> EffectiveToken # ""
           /\ provider.client.set
                => /\ provider.client.authToken = EffectiveToken
                   /\ provider.errors = {}
                   /\ provider.ResourceData = provider.client
                   /\ provider.DataSourceData = provider.client
           /\ ~provider.client.set
                => /\ provider.errors = {"Missing Cachix API Token"}
                   /\ ~provider.ResourceData.set
                   /\ ~provider.DataSourceData.set
           /\ (config.explicit = "value" /\ config.token = "")
                => /\ provider.errors = {"Missing Cachix API Token"}
                   /\ ~provider.client.set

C37_Witness ==
    /\ provider.configured
    /\ config.explicit = "value"
    /\ config.token = ""
    /\ config.env = "env-token"
    /\ provider.errors = {"Missing Cachix API Token"}
    /\ ~provider.client.set

\* the doRequest calls CreateCache has finished before the running one
StagesBefore ==
    CASE stage = "user" -> 0
      [] stage = "post" -> 1
      [] stage = "cache" -> 2
      [] OTHER -> 0

MethodDone(m) ==
    adapter.method = m /\ adapter.pc = "returned" /\ adapter.configured

(* C31: CacheResource.Delete takes a cache that is already absent for      *)
(* deleted.  When DeleteCache fails with a 404 APIError, Delete reports no *)
(* error diagnostic, so that the resource leaves the state; for every      *)
(* other failure of DeleteCache it reports one error diagnostic and the    *)
(* resource stays.  So a second Delete of the same resource, which the     *)
(* server answers with 404, does not fail.                                 *)
C31_DeleteAbsentIsSuccess ==
    MethodDone("CacheResource.Delete")
        => /\ Has404(result.err)
                => /\ adapter.diags = << >>
                   /\ adapter.removed
           /\ (result.err # Nil /\ ~Has404(result.err))
                => /\ Len(adapter.diags) = 1
                   /\ ~adapter.removed
           /\ result.err = Nil
                => /\ adapter.diags = << >>
                   /\ adapter.removed
           /\ (log # << >> /\ Last(log) = Status(404))
                => adapter.diags = << >>

C31_Witness ==
    /\ MethodDone("CacheResource.Delete")
    /\ log = <<Status(503), Status(404)>>
    /\ result.err = APIError(404, "E", BodyErrJSON)
    /\ adapter.diags = << >>
    /\ adapter.removed

(* C32: CacheResource.Create chooses its diagnostic by the status of the   *)
(* APIError that caused the failure.  Whenever CreateCache fails because   *)
(* the API answered 401 or 403 in any of its steps (user lookup, POST,     *)
(* follow-up GET), Create reports "Authentication Error"; and on every     *)
(* failure it writes nothing to the state.                                 *)
C32_AuthenticationDiagnostic ==
    (MethodDone("CacheResource.Create") /\ result.err # Nil)
        => /\ ~adapter.written
           /\ (log # << >> /\ Last(log).kind = "status"
                 /\ Last(log).status \in {401, 403})
                => adapter.diags = <<"Authentication Error">>

(* C33: when an operation fails because the server answered 5xx on every   *)
(* attempt, the method reports its server-error diagnostic: "Server        *)
(* Error" in CacheResource.Delete, "Cachix API Error" in the Read of the   *)
(* cache and of the user data source.                                      *)
C33_ServerErrorDiagnostic ==
    (adapter.pc = "returned" /\ adapter.configured /\ result.err # Nil
       /\ ~ctxDone
       /\ Len(log) = retryMax + 1
       /\ \A i \in 1..Len(log) :
            log[i].kind = "status" /\ log[i].status >= 500)
        => /\ adapter.method = "CacheResource.Delete"
                => adapter.diags = <<"Server Error">>
           /\ adapter.method \in {"CacheDataSource.Read",
                                  "UserDataSource.Read"}
                => adapter.diags = <<"Cachix API Error">>

(* C34: a cache is never updated in place.  CacheResource.Update always    *)
(* reports "Update Not Supported", sends no request and changes neither    *)
(* the remote nor the local state; of the requests the methods send, only  *)
(* the POST of Create and the DELETE of Delete are not GETs.               *)
C34_NoUpdateInPlace ==
    /\ (adapter.method = "CacheResource.Update" /\ adapter.pc # "idle")
         => /\ adapter.pc = "returned"
            /\ adapter.diags = <<"Update Not Supported">>
            /\ ~adapter.written
            /\ ~adapter.removed
            /\ pc = "idle"
            /\ trace = << >>
            /\ nreq = 0
            /\ ~wire.sent
    /\ \A i \in 1..Len(trace) :
         \/ trace[i].method = "GET"
         \/ trace[i].method = "POST"
              /\ adapter.method = "CacheResource.Create"
         \/ trace[i].method = "DELETE"
              /\ adapter.method = "CacheResource.Delete"
    /\ posts > 0 => adapter.method = "CacheResource.Create"

C34_Witness ==
    /\ adapter.method = "CacheResource.Update"
    /\ adapter.pc = "returned"
    /\ adapter.configured
    /\ adapter.diags = <<"Update Not Supported">>
    /\ trace = << >>

(* C35: a method called while its receiver holds no client never           *)
(* dereferences the nil client: Create, Read and Delete of the resource    *)
(* and the Read of the cache and of the user data source each report an    *)
(* error diagnostic and send no request, and do not panic.                 *)
C35_NilClientReported ==
    (adapter.pc # "idle" /\ ~adapter.configured
       /\ adapter.method # "CacheResource.Update")
        => /\ adapter.pc = "returned"
           /\ Len(adapter.diags) >= 1
           /\ trace = << >>
           /\ nreq = 0

\* the status of the APIError in the wrap chain of err, 0 when there is none
ChainStatus(err) ==
    IF HasAPIError(err)
    THEN err[CHOOSE i \in 1..Len(err) :
               err[i].k = "api" /\ \A j \in 1..(i - 1) : err[j].k # "api"].status
    ELSE 0

\* the summary claimed for an error whose chain holds an APIError
ClaimedSummary(statusCode) ==
    CASE statusCode \in {401, 403} -> "Authentication Error"
      [] statusCode = 404 -> "Cache Not Found"
      [] statusCode >= 500 -> "Server Error"
      [] OTHER -> "Unable to Read Cache"

(* C39: APIErrorHandler.Handle returns true if and only if err is not nil, *)
(* and then adds exactly one error diagnostic, chosen by the status of the *)
(* APIError found anywhere in the wrap chain of err (401/403:              *)
(* "Authentication Error"; 404: "<type> Not Found"; 500 and above:         *)
(* "Server Error"; another status: "Unable to ..."; no APIError: the       *)
(* unexpected-error text).  HandleNotFoundAsRemoved returns (true, true)   *)
(* and adds no diagnostic exactly when the chain holds a 404 APIError,     *)
(* (false, false) for nil, and otherwise does what Handle does.            *)
C39_HandlerClassifies ==
    /\ pure.fn = "Handle"
         => /\ pure.handled <=> pure.arg # Nil
            /\ pure.arg = Nil => pure.diags = << >>
            /\ pure.arg # Nil => Len(pure.diags) = 1
            /\ HasAPIError(pure.arg)
                 => /\ pure.diags[1].summary
                         = ClaimedSummary(ChainStatus(pure.arg))
                    /\ pure.diags[1].detail # "An unexpected error occurred"
            /\ (pure.arg # Nil /\ ~HasAPIError(pure.arg))
                 => pure.diags[1].detail = "An unexpected error occurred"
    /\ pure.fn = "HandleNotFoundAsRemoved"
         => /\ (pure.handled /\ pure.notFound /\ pure.diags = << >>)
                 <=> Has404(pure.arg)
            /\ pure.notFound => (pure.handled /\ pure.diags = << >>)
            /\ pure.arg = Nil
                 => (~pure.handled /\ ~pure.notFound /\ pure.diags = << >>)
            /\ (pure.arg # Nil /\ ~Has404(pure.arg))
                 => /\ pure.handled
                    /\ ~pure.notFound
                    /\ Len(pure.diags) = 1
                    /\ IF HasAPIError(pure.arg)
                       THEN pure.diags[1].summary
                              = ClaimedSummary(ChainStatus(pure.arg))
                       ELSE pure.diags[1].detail
                              = "An unexpected error occurred"

C39_Witness ==
    /\ pure.fn = "Handle"
    /\ pure.arg = Wrap("max retries exceeded",
                       Wrap("max retries exceeded",
                            APIError(503, "M", BodyErrJSON)))
    /\ pure.handled
    /\ pure.diags = <<[summary |-> "Server Error",
                       detail |-> "A server error occurred"]>>

=============================================================================
